---- MODULE Spec2Model ----
(***************************************************************************)
(* Model of tsl/script/parse/parse.py: the line classifier (get_types),    *)
(* the segmenter (parse_script_lines), the noun registry (update_presence),*)
(* the interaction graph (update_interaction) and the two-pass extraction  *)
(* engine (compute_presence_and_interactions).                             *)
(*                                                                         *)
(* Text is modelled as it is in the program: a line's content is a         *)
(* sequence of one-character strings, and every regular expression of the  *)
(* source is an operator over such sequences.                              *)
(***************************************************************************)
EXTENDS Integers, Sequences, FiniteSets, TLC

VARIABLES
    mode,           \* tsl.script.parse.const.mode: STRICT or FUZZY
    script_lines,   \* Script.script_lines: the input line records
    pc,             \* position of the running program
    i,              \* parse_script_lines: number of lines consumed by the for loop
    seg,            \* parse_script_lines: its locals (types, prior_types, script,
                    \*   current_scene, current_block, line_no)
    Presences,      \* tsl.script.Presences: presences, presence_ns, presence_sn
    Interactions,   \* tsl.script.Interactions: interactions, interaction_ns, interaction_sn
    eng             \* compute_presence_and_interactions: its locals

vars == <<mode, script_lines, pc, i, seg, Presences, Interactions, eng>>

-----------------------------------------------------------------------------
(* Bounds of the model. *)

MaxLines == 4
MaxRegs == 3
MaxRecs == 3
MaxParas == 4

-----------------------------------------------------------------------------
(* Enumerations of tsl.script.parse.const. *)

STRICT == "STRICT"
FUZZY == "FUZZY"

\* ACTION (a reserved word of TLA+)
ACTION_ == "ACTION"
CONTINUED == "CONTINUED"
DIALOG == "DIALOG"
DIALOG_HEADER == "DIALOG_HEADER"
DIRECTION == "DIRECTION"
EMPTY == "EMPTY"
ERROR == "ERROR"
FRONT == "FRONT"
PAGE_NUM == "PAGE_NUM"
RESUMED == "RESUMED"
SCENE_HEADING == "SCENE_HEADING"

CHARACTER == "CHARACTER"
THING == "THING"
LOCATION == "LOCATION"

SETTING == "SETTING"
DISCUSS == "DISCUSS"
MENTION == "MENTION"
APPEAR == "APPEAR"

-----------------------------------------------------------------------------
(* Python values. *)

\* None
None == "None"

\* str( n ) of an integer, and int( key ) of such a string: a key made by
\* str is never equal to the integer it was made from.
str(n) == <<"str", n>>
int(k) == k[2]
\* an integer used as a dictionary key
IntKey(n) == <<"int", n>>

\* d[key] = val on a dictionary
SetKey(d, key, val) == [k \in DOMAIN d \cup {key} |-> IF k = key THEN val ELSE d[k]]
\* del d[key]
DelKey(d, key) == [k \in DOMAIN d \ {key} |-> d[k]]

EmptyDict == [k \in {} |-> 0]

-----------------------------------------------------------------------------
(* Characters and the character classes of Python's re module. *)

Lower == {"a","b","c","d","e","f","g","h","i","j","k","l","m",
          "n","o","p","q","r","s","t","u","v","w","x","y","z"}
Upper == {"A","B","C","D","E","F","G","H","I","J","K","L","M",
          "N","O","P","Q","R","S","T","U","V","W","X","Y","Z"}
Digit == {"0","1","2","3","4","5","6","7","8","9"}

\* \s
IsSpace(c) == c \in {" ", "\t", "\n"}
\* [a-z]
IsLower(c) == c \in Lower
\* \d
IsDigit(c) == c \in Digit
\* \w
IsWord(c) == c \in Lower \cup Upper \cup Digit \cup {"_"}

\* s[a..b], empty when a > b
Sub(s, a, b) == IF a > b THEN <<>> ELSE SubSeq(s, a, b)

\* s.startswith( p )
startswith(s, p) == Len(s) >= Len(p) /\ SubSeq(s, 1, Len(p)) = p

\* number of leading whitespace characters of s
RECURSIVE LeadSpaces(_)
LeadSpaces(s) ==
    IF s = <<>> \/ ~IsSpace(Head(s)) THEN 0 ELSE 1 + LeadSpaces(Tail(s))

\* number of trailing whitespace characters of s
RECURSIVE TrailSpaces(_)
TrailSpaces(s) ==
    IF s = <<>> \/ ~IsSpace(s[Len(s)]) THEN 0
    ELSE 1 + TrailSpaces(SubSeq(s, 1, Len(s) - 1))

\* s.lstrip(), s.rstrip(), s.strip()
lstrip(s) == Sub(s, LeadSpaces(s) + 1, Len(s))
rstrip(s) == Sub(s, 1, Len(s) - TrailSpaces(s))
strip(s) == rstrip(lstrip(s))

\* s without the one newline that $ may leave unmatched at the end of s
BeforeFinalNewline(s) ==
    IF s # <<>> /\ s[Len(s)] = "\n" THEN SubSeq(s, 1, Len(s) - 1) ELSE s

\* len( s.split() ): the number of maximal runs of non-whitespace
RECURSIVE WordCount(_)
WordCount(s) ==
    IF s = <<>> THEN 0
    ELSE (IF ~IsSpace(s[1]) /\ (Len(s) = 1 \/ IsSpace(s[2])) THEN 1 ELSE 0)
         + WordCount(Tail(s))

\* the literals of the source
kCONTINUED == <<"C","O","N","T","I","N","U","E","D">>
kCONTINUEDc == kCONTINUED \o <<":">>
kINTERIOR == <<"I","N","T","E","R","I","O","R">>
kEXTERIOR == <<"E","X","T","E","R","I","O","R">>
kINT == <<"I","N","T",".">>
kEXT == <<"E","X","T",".">>
kTHE == <<"T","H","E">>

-----------------------------------------------------------------------------
(* The detection predicates. *)

\* ^\s*$
is_empty_line(line) == \A k \in 1..Len(line) : IsSpace(line[k])

\* ^[^\sa-z][^a-z]+$
NoLowerHeading(line) ==
    /\ Len(line) >= 2
    /\ ~IsSpace(line[1]) /\ ~IsLower(line[1])
    /\ \A k \in 2..Len(line) : ~IsLower(line[k])

\* is_scene_header with the heading pattern also matching an indented line
is_scene_header_indented(line) ==
    /\ Len(line) >= 2
    /\ \A k \in 1..Len(line) : ~IsLower(line[k])
    /\ \E k \in 1..Len(line) : IsWord(line[k])

is_scene_header(line) ==
    IF mode = STRICT
    THEN /\ NoLowerHeading(line)
         /\ \/ startswith(line, kINTERIOR) \/ startswith(line, kEXTERIOR)
            \/ startswith(line, kINT) \/ startswith(line, kEXT)
    ELSE /\ NoLowerHeading(line)
         /\ \E k \in 1..Len(line) : IsWord(line[k])

\* is_start_continue with the parentheses of the marker optional
is_start_continue_loose(line) ==
    LET s == strip(line) IN
    \/ startswith(s, kCONTINUED)
    \/ /\ Len(s) >= 2 /\ s[1] = "(" /\ s[Len(s)] = ")"
       /\ strip(SubSeq(s, 2, Len(s) - 1)) = kCONTINUED

\* ^\s*\(\s*CONTINUED\s*\)\s*$
is_start_continue(line) ==
    LET s == strip(line) IN
    /\ Len(s) >= 2 /\ s[1] = "(" /\ s[Len(s)] = ")"
    /\ strip(SubSeq(s, 2, Len(s) - 1)) = kCONTINUED

\* ^\s*CONTINUED:\s*(\(\d+\))?\s*$   or   ^\s*CONTINUED:\s*(\d+)?\s*$
is_end_continue(line) ==
    LET s == strip(line) IN
    /\ startswith(s, kCONTINUEDc)
    /\ LET r == lstrip(Sub(s, Len(kCONTINUEDc) + 1, Len(s))) IN
       \/ r = <<>>
       \/ /\ Len(r) >= 3 /\ r[1] = "(" /\ r[Len(r)] = ")"
          /\ \A k \in 2..(Len(r) - 1) : IsDigit(r[k])
       \/ \A k \in 1..Len(r) : IsDigit(r[k])

\* is_page_num with the indentation and the digits optional: ^\s*\d*\.?$
is_page_num_blank(line) ==
    LET s == BeforeFinalNewline(line)
        t == IF s # <<>> /\ s[Len(s)] = "." THEN SubSeq(s, 1, Len(s) - 1) ELSE s
        n == LeadSpaces(t)
    IN  \A k \in (n + 1)..Len(t) : IsDigit(t[k])

\* ^\s+\d+\.?$
is_page_num(line) ==
    LET s == BeforeFinalNewline(line)
        t == IF s # <<>> /\ s[Len(s)] = "." THEN SubSeq(s, 1, Len(s) - 1) ELSE s
        n == LeadSpaces(t)
    IN  /\ n >= 1 /\ n < Len(t)
        /\ \A k \in (n + 1)..Len(t) : IsDigit(t[k])

\* ^\s+[^a-z]+:$
is_direction(line) ==
    LET s == BeforeFinalNewline(line) IN
    /\ Len(s) >= 3
    /\ IsSpace(s[1])
    /\ s[Len(s)] = ":"
    /\ \A k \in 2..(Len(s) - 1) : ~IsLower(s[k])

\* ^[^\s]
is_action(line) == line # <<>> /\ ~IsSpace(line[1])

\* ^\s+[^a-z]+$
is_dialog_header(line) ==
    /\ Len(line) >= 2
    /\ IsSpace(line[1])
    /\ \A k \in 2..Len(line) : ~IsLower(line[k])

is_dialog(line) == ~is_action(line)

\* The lookahead of parse_script_lines: <<content>> when a next line exists,
\* <<>> for the False the code passes at the end of the stream.
NoNextLine == <<>>
\* Python truth of next_line: False and the empty string are both false.
Truthy(next_line) == next_line # NoNextLine /\ next_line[1] # <<>>

get_types(line, next_line, prior_types) ==
    LET prior_block_type == prior_types[1]
        prior_line_type == prior_types[2]
    IN
    IF prior_block_type = FRONT /\ ~is_scene_header(line)
    THEN IF is_empty_line(line) THEN <<FRONT, EMPTY>> ELSE <<FRONT, FRONT>>
    ELSE IF is_start_continue(line) THEN <<prior_block_type, CONTINUED>>
    ELSE IF prior_line_type = CONTINUED
    THEN IF is_end_continue(line) THEN <<prior_block_type, RESUMED>>
         ELSE <<prior_block_type, CONTINUED>>
    ELSE IF is_page_num(line) THEN <<PAGE_NUM, PAGE_NUM>>
    ELSE IF is_empty_line(line)
    THEN IF prior_block_type = DIALOG /\ prior_line_type = DIALOG_HEADER
         THEN <<ERROR, EMPTY>>
         ELSE IF prior_block_type = DIALOG /\ prior_line_type = DIALOG
                 /\ Truthy(next_line) /\ is_dialog_header(next_line[1])
         THEN <<DIALOG, EMPTY>>
         ELSE IF prior_block_type = DIALOG /\ prior_line_type = RESUMED
         THEN <<DIALOG, EMPTY>>
         ELSE <<EMPTY, EMPTY>>
    ELSE IF is_direction(line)
    THEN IF prior_line_type # EMPTY THEN <<ERROR, DIRECTION>>
         ELSE <<DIRECTION, DIRECTION>>
    ELSE IF is_scene_header(line)
    THEN IF (Truthy(next_line) /\ is_action(next_line[1])) \/ prior_block_type = ACTION_
         THEN <<ACTION_, ACTION_>>
         ELSE IF prior_block_type \in {EMPTY, FRONT} \/ prior_line_type = EMPTY
         THEN <<SCENE_HEADING, SCENE_HEADING>>
         ELSE <<ERROR, SCENE_HEADING>>
    ELSE IF is_action(line)
    THEN IF prior_block_type \in {EMPTY, ACTION_} \/ prior_line_type = EMPTY
         THEN <<ACTION_, ACTION_>>
         ELSE <<ERROR, ACTION_>>
    ELSE IF is_dialog_header(line)
    THEN IF prior_line_type \in {DIALOG, DIALOG_HEADER}
         THEN <<DIALOG, DIALOG>>
         ELSE IF prior_block_type \in {EMPTY, DIALOG} /\ prior_line_type = EMPTY
         THEN <<DIALOG, DIALOG_HEADER>>
         ELSE <<ERROR, DIALOG_HEADER>>
    ELSE IF is_dialog(line)
    THEN IF prior_block_type = DIALOG /\ prior_line_type \in {DIALOG_HEADER, DIALOG}
         THEN <<DIALOG, DIALOG>>
         ELSE <<ERROR, DIALOG>>
    ELSE <<ERROR, ERROR>>

-----------------------------------------------------------------------------
(* The segmenter: parse_script_lines. *)

RECURSIVE SumSeq(_)
SumSeq(s) == IF s = <<>> THEN 0 ELSE Head(s) + SumSeq(Tail(s))

\* the locals of parse_script_lines before its loop
SegInit ==
    [ types |-> <<FRONT, FRONT>>,
      prior_types |-> <<FRONT, FRONT>>,
      script |-> [ front |-> [first_line |-> 0, last_line |-> 0],
                   scenes |-> EmptyDict ],
      current_scene |-> [ scene_number |-> 0, heading_line |-> 1,
                          first_line |-> 1, last_line |-> 1,
                          scene_blocks |-> <<>> ],
      current_block |-> [ block_type |-> EMPTY, first_line |-> 1, last_line |-> 1,
                          line_types |-> SetKey(EmptyDict, IntKey(1), EMPTY) ],
      line_no |-> None ]

\* the block opened for a line classified as types
new_block(types, line_no) ==
    [ block_type |-> types[1], first_line |-> line_no, last_line |-> line_no,
      line_types |-> SetKey(EmptyDict, str(line_no), types[2]) ]

\* the scene opened by a SCENE_HEADING block
new_scene(current_scene, line_no) ==
    [ scene_number |-> current_scene.scene_number + 1, heading_line |-> line_no,
      first_line |-> line_no, last_line |-> line_no, scene_blocks |-> <<>> ]

\* segment_error without the append of the block it closes
segment_error_drop(st, types, line_no) ==
    [ st EXCEPT
        !.types = types,
        !.line_no = line_no,
        !.current_block = new_block(types, line_no),
        !.prior_types = types ]

\* segment_error without prior_types = types
segment_error_stale(st, types, line_no) ==
    [ st EXCEPT
        !.types = types,
        !.line_no = line_no,
        !.current_scene.scene_blocks =
            Append(@, [st.current_block EXCEPT !.block_type = st.prior_types[1]]),
        !.current_block = new_block(types, line_no) ]

\* the ERROR branch of the loop body
segment_error(st, types, line_no) ==
    [ st EXCEPT
        !.types = types,
        !.line_no = line_no,
        !.current_scene.scene_blocks =
            Append(@, [st.current_block EXCEPT !.block_type = st.prior_types[1]]),
        !.current_block = new_block(types, line_no),
        !.prior_types = types ]

\* the branch of the loop body that extends the running block
segment_extend(st, types, line_no) ==
    [ st EXCEPT
        !.types = types,
        !.line_no = line_no,
        !.current_block.last_line = line_no,
        !.current_block.line_types = SetKey(@, str(line_no), types[2]),
        !.prior_types = types ]

\* segment_open without the assignment prior_types = types
segment_open_stale(st, types, line_no) ==
    LET closed == [st.current_scene EXCEPT
                      !.scene_blocks = Append(@, st.current_block)]
    IN
    IF types[1] = SCENE_HEADING
    THEN LET ended == [closed EXCEPT !.last_line = line_no - 1] IN
         [ st EXCEPT
             !.types = types,
             !.line_no = line_no,
             !.current_block = new_block(types, line_no),
             !.script.scenes = SetKey(@, str(ended.scene_number), ended),
             !.current_scene = new_scene(ended, line_no) ]
    ELSE [ st EXCEPT
             !.types = types,
             !.line_no = line_no,
             !.current_block = new_block(types, line_no),
             !.current_scene = closed ]

\* the branch of the loop body that closes the running block and opens another
segment_open(st, types, line_no) ==
    LET closed == [st.current_scene EXCEPT
                      !.scene_blocks = Append(@, st.current_block)]
    IN
    IF types[1] = SCENE_HEADING
    THEN LET ended == [closed EXCEPT !.last_line = line_no - 1] IN
         [ st EXCEPT
             !.types = types,
             !.line_no = line_no,
             !.current_block = new_block(types, line_no),
             !.script.scenes = SetKey(@, str(ended.scene_number), ended),
             !.current_scene = new_scene(ended, line_no),
             !.prior_types = types ]
    ELSE [ st EXCEPT
             !.types = types,
             !.line_no = line_no,
             !.current_block = new_block(types, line_no),
             !.current_scene = closed,
             !.prior_types = types ]

\* one iteration of the loop of parse_script_lines, on line number idx
segment_line(st, lines, idx) ==
    LET line == lines[idx].content
        line_no == lines[idx].line_no
        next_line == IF idx + 1 <= Len(lines) THEN <<lines[idx + 1].content>>
                     ELSE NoNextLine
        types == get_types(line, next_line, st.prior_types)
    IN
    IF types[1] = FRONT
    THEN [ st EXCEPT !.types = types, !.line_no = line_no,
                     !.script.front = [first_line |-> 1, last_line |-> line_no] ]
    ELSE IF types[1] = ERROR THEN segment_error(st, types, line_no)
    ELSE IF types[1] = st.prior_types[1] THEN segment_extend(st, types, line_no)
    ELSE segment_open(st, types, line_no)

\* after the loop: append the terminal block and scene
segment_flush(st) ==
    LET last == [st.current_scene EXCEPT
                    !.scene_blocks = Append(@, st.current_block),
                    !.last_line = st.line_no]
    IN [ st EXCEPT !.current_scene = last,
                   !.script.scenes = SetKey(@, str(last.scene_number), last) ]

\* the scenes with the stub left in
delete_stub_none(scenes) == scenes

\* del script['scenes']['0']
delete_stub(scenes) == DelKey(scenes, str(0))

\* the words of the lines of a block: script_lines[first_line-1 .. last_line-1]
block_words(block, lines) ==
    SumSeq([k \in 1..(block.last_line - block.first_line + 1) |->
               WordCount(lines[block.first_line + k - 1].content)])

\* the total_words a block is given
block_total(block, lines) ==
    IF block.block_type = EMPTY THEN 0 ELSE block_words(block, lines)

\* scene_share without the continue that skips EMPTY blocks
scene_share_all(block, lines) == block_words(block, lines)

\* what a block adds to its scene's total_words
scene_share(block, lines) ==
    IF block.block_type = EMPTY THEN 0 ELSE block_words(block, lines)

\* what a block adds to its scene's dialog_words
dialog_share(block, lines) ==
    IF block.block_type = DIALOG THEN block_words(block, lines) ELSE 0

\* the word counts of one scene
count_scene(scene, lines) ==
    LET blocks == scene.scene_blocks
        counted == [k \in 1..Len(blocks) |->
                       SetKey(blocks[k], "total_words", block_total(blocks[k], lines))]
    IN SetKey(SetKey([scene EXCEPT !.scene_blocks = counted],
                     "total_words",
                     SumSeq([k \in 1..Len(blocks) |-> scene_share(blocks[k], lines)])),
              "dialog_words",
              SumSeq([k \in 1..Len(blocks) |-> dialog_share(blocks[k], lines)]))

RECURSIVE SumOver(_, _, _)
\* the sum of field f of the values of dictionary d over the keys ks
SumOver(d, ks, f) ==
    IF ks = {} THEN 0
    ELSE LET k == CHOOSE x \in ks : TRUE IN d[k][f] + SumOver(d, ks \ {k}, f)

\* the word counts of the document
count_words(script, lines) ==
    LET scenes == [k \in DOMAIN script.scenes |-> count_scene(script.scenes[k], lines)]
    IN SetKey(SetKey([script EXCEPT !.scenes = scenes],
                     "total_words", SumOver(scenes, DOMAIN scenes, "total_words")),
              "dialog_words", SumOver(scenes, DOMAIN scenes, "dialog_words"))

\* parse_script_lines from the end of its loop to its return
segment_finish(st, lines) ==
    LET flushed == segment_flush(st)
        pruned == [flushed EXCEPT !.script.scenes = delete_stub(@)]
    IN [pruned EXCEPT !.script = count_words(@, lines)]

RECURSIVE segment_loop(_, _, _)
\* the loop of parse_script_lines from line idx on
segment_loop(st, lines, idx) ==
    IF idx > Len(lines) THEN st
    ELSE segment_loop(segment_line(st, lines, idx), lines, idx + 1)

\* parse_script_lines: the structure it returns
parse_script_lines(lines) == segment_finish(segment_loop(SegInit, lines, 1), lines).script

-----------------------------------------------------------------------------
(* Input lines. *)

\* the line records of a list of contents: line_no counts from 1
MkLines(raw) == [k \in 1..Len(raw) |-> [line_no |-> k, page_no |-> 1, content |-> raw[k]]]

\* contents with the newline of the source file kept at the end of each
WithNewlines(raw) == [k \in 1..Len(raw) |-> raw[k] \o <<"\n">>]

\* the line shapes the segmenter is run on
ParseCatalog ==
    { <<>>,                                              \* empty
      <<"I","N","T","."," ","K">>,                       \* heading with a marker
      <<"K","O">>,                                       \* capitals from column 0
      <<"a"," ","b">>,                                   \* prose from column 0
      <<" ","J","O">>,                                   \* indented capitals
      <<" ","h","i">>,                                   \* indented prose
      <<" ","C","U","T",":">>,                           \* indented capitals and colon
      <<" ","1",".">>,                                   \* indented number
      <<"(">> \o kCONTINUED \o <<")">>,                  \* page-break start marker
      kCONTINUEDc }                                      \* page-break end marker

SeqsUpTo(S, n) == UNION { [1..m -> S] : m \in 0..n }

\* the registry and the graph as constructed
PresencesInit == [ presences |-> <<>>, presence_ns |-> EmptyDict, presence_sn |-> EmptyDict ]
InteractionsInit ==
    [ interactions |-> <<>>, interaction_ns |-> EmptyDict, interaction_sn |-> EmptyDict ]
EngIdle == [ phase |-> "idle" ]

-----------------------------------------------------------------------------
(* The segmenter run line by line. *)

\* two speeches of one exchange, and a speech with a page break in it
DialogExchange ==
    << <<"I","N","T","."," ","K">>, <<>>, <<" ","J","O">>, <<" ","h","i">>, <<>>, <<" ","J","O">>, <<" ","h","i">> >>
DialogPageBreak ==
    << <<"I","N","T","."," ","K">>, <<>>, <<" ","J","O">>, <<" ","h","i">>, <<"(">> \o kCONTINUED \o <<")">>, kCONTINUEDc, <<>>, <<" ","h","i">> >>

\* the inputs the segmenter is run on
ParseInputs == SeqsUpTo(ParseCatalog, MaxLines) \cup { DialogExchange, DialogPageBreak }

Init ==
    /\ mode \in {STRICT, FUZZY}
    /\ \E raw \in ParseInputs, nl \in BOOLEAN :
          script_lines = MkLines(IF nl THEN WithNewlines(raw) ELSE raw)
    /\ pc = "parse"
    /\ i = 0
    /\ seg = SegInit
    /\ Presences = PresencesInit
    /\ Interactions = InteractionsInit
    /\ eng = EngIdle

\* one iteration of the for loop
ParseLine ==
    /\ pc = "parse"
    /\ i < Len(script_lines)
    /\ seg' = segment_line(seg, script_lines, i + 1)
    /\ i' = i + 1
    /\ UNCHANGED <<mode, script_lines, pc, Presences, Interactions, eng>>

\* the end of the stream: flush, drop the stub scene, count words, return
ParseFinish ==
    /\ pc = "parse"
    /\ i = Len(script_lines)
    /\ seg' = segment_finish(seg, script_lines)
    /\ pc' = "parsed"
    /\ UNCHANGED <<mode, script_lines, i, Presences, Interactions, eng>>

Next == ParseLine \/ ParseFinish

Spec == Init /\ [][Next]_vars

-----------------------------------------------------------------------------
(* The noun registry: get_presence, update_presence, update_noun_type. *)

\* the key 'noun_type' of presence_ns[name], which sits beside its scene ids
NounTypeKey == <<"key", "noun_type">>

get_presence(noun, presence_type, scene_id, page_no, line_no) ==
    [ name |-> noun[1],
      noun_type |-> noun[2],
      presence_type |-> presence_type,
      where |-> [scene_id |-> scene_id, page_no |-> page_no, line_no |-> line_no] ]

\* update_noun_type that takes the new type whatever the old one is
update_noun_type_last(old_type, new_type) == new_type

\* update_noun_type that lets a LOCATION context demote a CHARACTER
update_noun_type_demote(old_type, new_type) ==
    IF \/ old_type = THING /\ new_type \in {LOCATION, CHARACTER}
       \/ old_type = LOCATION /\ new_type = CHARACTER
       \/ old_type = CHARACTER /\ new_type = LOCATION
    THEN new_type
    ELSE old_type

update_noun_type(old_type, new_type) ==
    IF \/ old_type = THING /\ new_type \in {LOCATION, CHARACTER}
       \/ old_type = LOCATION /\ new_type = CHARACTER
    THEN new_type
    ELSE IF old_type = CHARACTER /\ new_type = LOCATION
    THEN old_type
    ELSE old_type

\* the insertion into presence_ns, before the authoritative type is updated
ns_insert(presence_ns, presence) ==
    LET name == presence.name
        ntype == presence.noun_type
        scene_id == presence.where.scene_id
    IN
    IF name \notin DOMAIN presence_ns
    THEN SetKey(presence_ns, name,
                SetKey(SetKey(EmptyDict, scene_id, <<presence>>), NounTypeKey, ntype))
    ELSE IF scene_id \notin DOMAIN presence_ns[name]
    THEN [presence_ns EXCEPT ![name] = SetKey(@, scene_id, <<presence>>)]
    ELSE [presence_ns EXCEPT ![name][scene_id] = Append(@, presence)]

\* sn_insert that starts the scene's table afresh for a name new to the scene
sn_insert_reset(presence_sn, presence) ==
    LET name == presence.name
        scene_id == presence.where.scene_id
    IN
    IF scene_id \notin DOMAIN presence_sn \/ name \notin DOMAIN presence_sn[scene_id]
    THEN SetKey(presence_sn, scene_id, SetKey(EmptyDict, name, <<presence>>))
    ELSE [presence_sn EXCEPT ![scene_id][name] = Append(@, presence)]

\* the insertion into presence_sn
sn_insert(presence_sn, presence) ==
    LET name == presence.name
        scene_id == presence.where.scene_id
    IN
    IF scene_id \notin DOMAIN presence_sn
    THEN SetKey(presence_sn, scene_id, SetKey(EmptyDict, name, <<presence>>))
    ELSE IF name \notin DOMAIN presence_sn[scene_id]
    THEN [presence_sn EXCEPT ![scene_id] = SetKey(@, name, <<presence>>)]
    ELSE [presence_sn EXCEPT ![scene_id][name] = Append(@, presence)]

\* update_presence on the registry P
update_presence(P, presence) ==
    LET name == presence.name
        ntype == presence.noun_type
        ns == ns_insert(P.presence_ns, presence)
    IN
    [ presences |-> Append(P.presences, presence),
      presence_ns |->
          [ns EXCEPT ![name][NounTypeKey] = update_noun_type(@, ntype)],
      presence_sn |-> sn_insert(P.presence_sn, presence) ]

get_noun_type_for_name(P, name) ==
    IF name \in DOMAIN P.presence_ns THEN P.presence_ns[name][NounTypeKey] ELSE THING

-----------------------------------------------------------------------------
(* The interaction graph: get_interaction, update_interaction. *)

get_interaction(a, b, where, nature) ==
    [ a |-> a, b |-> b, where |-> where, interaction_type |-> nature ]

\* _update_interaction_helper on the values of its three keys
update_interaction_helper(dictionary, a_val, b_val, c_val, interaction) ==
    IF a_val \notin DOMAIN dictionary
    THEN SetKey(dictionary, a_val,
                SetKey(EmptyDict, b_val, SetKey(EmptyDict, c_val, <<interaction>>)))
    ELSE IF b_val \notin DOMAIN dictionary[a_val]
    THEN [dictionary EXCEPT ![a_val] =
             SetKey(@, b_val, SetKey(EmptyDict, c_val, <<interaction>>))]
    ELSE IF c_val \notin DOMAIN dictionary[a_val][b_val]
    THEN [dictionary EXCEPT ![a_val][b_val] = SetKey(@, c_val, <<interaction>>)]
    ELSE [dictionary EXCEPT ![a_val][b_val][c_val] = Append(@, interaction)]

\* the two reciprocating insertions into interaction_ns
index_ns(interaction_ns, a, b, where, interaction) ==
    update_interaction_helper(
        update_interaction_helper(interaction_ns, a.name, b.name, where.scene_id,
                                  interaction),
        b.name, a.name, where.scene_id, interaction)

\* index_sn without the insertion from b's side
index_sn_oneway(interaction_sn, a, b, where, interaction) ==
    update_interaction_helper(interaction_sn, where.scene_id, a.name, b.name,
                              interaction)

\* the two reciprocating insertions into interaction_sn
index_sn(interaction_sn, a, b, where, interaction) ==
    update_interaction_helper(
        update_interaction_helper(interaction_sn, where.scene_id, a.name, b.name,
                                  interaction),
        where.scene_id, b.name, a.name, interaction)

\* The registry, the graph and the exception in flight, if any: what the
\* calls below take and give back.  A call made while an exception
\* propagates does not happen.
World(P, I) == [ P |-> P, I |-> I, err |-> None ]

\* update_presence as a call
register(W, presence) ==
    IF W.err # None THEN W ELSE [W EXCEPT !.P = update_presence(@, presence)]

\* update_interaction as a call: the append comes first, and a participant
\* that is the empty dictionary raises KeyError in the first helper call
update_interaction(W, a, b, where, itype) ==
    IF W.err # None THEN W
    ELSE LET it == get_interaction(a, b, where, itype)
             logged == [W EXCEPT !.I.interactions = Append(@, it)]
         IN
         IF "name" \notin DOMAIN a \/ "name" \notin DOMAIN b
         THEN [logged EXCEPT !.err = "KeyError"]
         ELSE [logged EXCEPT
                  !.I.interaction_ns = index_ns(@, a, b, where, it),
                  !.I.interaction_sn = index_sn(@, a, b, where, it)]

-----------------------------------------------------------------------------
(* Text utilities of the extraction engine. *)

UpperSeq == <<"A","B","C","D","E","F","G","H","I","J","K","L","M",
              "N","O","P","Q","R","S","T","U","V","W","X","Y","Z">>
LowerSeq == <<"a","b","c","d","e","f","g","h","i","j","k","l","m",
              "n","o","p","q","r","s","t","u","v","w","x","y","z">>

\* the lower-case form of each capital letter
LowerOf == [c \in Upper |-> LowerSeq[CHOOSE k \in 1..26 : UpperSeq[k] = c]]

\* re.I: the case-folded character
Fold(c) == IF c \in Upper THEN LowerOf[c] ELSE c

strip_leading(name, remove) ==
    LET n == Len(remove)
        matches == /\ startswith(name, remove)
                   /\ Len(name) > n
                   /\ IsSpace(name[n + 1])
        result == IF matches THEN Sub(name, n + 2, Len(name)) ELSE <<>>
    IN IF Len(result) = 0 THEN name
       ELSE IF is_empty_line(result) THEN name
       ELSE result

\* the number of leading - of s
RECURSIVE LeadDashes(_)
LeadDashes(s) == IF s = <<>> \/ Head(s) # "-" THEN 0 ELSE 1 + LeadDashes(Tail(s))

\* re.sub( r'^\s*-+\s*', '', s, count=1 )
DropLeadingDashes(s) ==
    LET t == lstrip(s)
        d == LeadDashes(t)
    IN IF d = 0 THEN s ELSE lstrip(Sub(t, d + 1, Len(t)))

\* the positions of the - of s
DashPositions(s) == { k \in 1..Len(s) : s[k] = "-" }

\* re.sub( r'-+[^-]*$', '', s, count=1 ): s up to its last group of -
DropFromLastDashes(s) ==
    IF DashPositions(s) = {} THEN s
    ELSE LET last == CHOOSE k \in DashPositions(s) : \A m \in DashPositions(s) : m <= k
             start == CHOOSE k \in 1..last :
                          /\ \A m \in k..last : s[m] = "-"
                          /\ (k = 1 \/ s[k - 1] # "-")
         IN Sub(s, 1, start - 1)

get_scene_location(scene_heading) ==
    LET h1 == IF startswith(scene_heading, kINTERIOR) \/ startswith(scene_heading, kEXTERIOR)
              THEN Sub(scene_heading, 9, Len(scene_heading))
              ELSE IF startswith(scene_heading, kINT) \/ startswith(scene_heading, kEXT)
              THEN Sub(scene_heading, 5, Len(scene_heading))
              ELSE scene_heading
        h2 == lstrip(DropLeadingDashes(h1))
        h3 == rstrip(DropFromLastDashes(h2))
    IN strip_leading(h3, kTHE)

\* the position of the first ) of s at or after position p, 0 when there is none
RECURSIVE NextClose(_, _)
NextClose(s, p) ==
    IF p > Len(s) THEN 0 ELSE IF s[p] = ")" THEN p ELSE NextClose(s, p + 1)

\* re.sub( r'\([^\)]*\)', '', s )
RECURSIVE DropParentheticals(_)
DropParentheticals(s) ==
    IF s = <<>> THEN <<>>
    ELSE IF s[1] = "(" /\ NextClose(s, 2) # 0
    THEN DropParentheticals(Sub(s, NextClose(s, 2) + 1, Len(s)))
    ELSE <<s[1]>> \o DropParentheticals(Tail(s))

get_character_from_dialog_header(dialog_header) == strip(DropParentheticals(dialog_header))

\* ''.join of the contents of lines first_line..last_line
RECURSIVE JoinLines(_, _, _)
JoinLines(lines, first_line, last_line) ==
    IF first_line > last_line THEN <<>>
    ELSE lines[first_line].content \o JoinLines(lines, first_line + 1, last_line)

\* re.sub( r'[\t ]+', ' ', text )
RECURSIVE CollapseBlanks(_)
CollapseBlanks(text) ==
    IF text = <<>> THEN <<>>
    ELSE IF text[1] \in {" ", "\t"}
    THEN IF Len(text) >= 2 /\ text[2] \in {" ", "\t"}
         THEN CollapseBlanks(Tail(text))
         ELSE <<" ">> \o CollapseBlanks(Tail(text))
    ELSE <<text[1]>> \o CollapseBlanks(Tail(text))

\* re.sub( r'\s+', ' ', text )
RECURSIVE CollapseSpace(_)
CollapseSpace(text) ==
    IF text = <<>> THEN <<>>
    ELSE IF IsSpace(text[1])
    THEN IF Len(text) >= 2 /\ IsSpace(text[2])
         THEN CollapseSpace(Tail(text))
         ELSE <<" ">> \o CollapseSpace(Tail(text))
    ELSE <<text[1]>> \o CollapseSpace(Tail(text))

\* the positions of the newlines of text, in increasing order
RECURSIVE NewlinePositions(_, _)
NewlinePositions(text, p) ==
    IF p > Len(text) THEN <<>>
    ELSE (IF text[p] = "\n" THEN <<p>> ELSE <<>>) \o NewlinePositions(text, p + 1)

\* get_line_offsets: one ( total_offset, line_no ) per piece of
\* text.split( '\n' ), the last piece popped; a piece ends where its newline
\* stands, so a text without newline yields no entry
get_line_offsets(text, first_line) ==
    LET nls == NewlinePositions(text, 1)
    IN [k \in 1..Len(nls) |-> <<nls[k], first_line + k - 1>>]

\* get_line_for_offset: the line it returns, or raised when line_offsets[0]
\* is read from an empty list (IndexError)
get_line_for_offset(line_offsets, pos) ==
    LET hits == { k \in 1..Len(line_offsets) : line_offsets[k][1] > pos }
    IN IF hits # {}
       THEN [ raised |-> FALSE,
              line_no |-> line_offsets[CHOOSE k \in hits : \A m \in hits : k <= m][2] ]
       ELSE IF line_offsets # <<>>
       THEN [ raised |-> FALSE, line_no |-> line_offsets[1][2] ]
       ELSE [ raised |-> TRUE, line_no |-> 0 ]

get_page_for_line(lines, line_no) == lines[line_no].page_no

\* sent_tokenize of nltk, on whitespace-normalised text: a sentence ends at a
\* full stop that a space and a further token follow; the space between two
\* sentences belongs to neither, and the last sentence runs to the end.
RECURSIVE SentencesFrom(_, _, _)
SentencesFrom(text, start, p) ==
    IF p > Len(text)
    THEN IF start > Len(text) THEN <<>> ELSE <<Sub(text, start, Len(text))>>
    ELSE IF text[p] = "." /\ p + 2 <= Len(text) /\ text[p + 1] = " "
    THEN <<Sub(text, start, p)>> \o SentencesFrom(text, p + 2, p + 2)
    ELSE SentencesFrom(text, start, p + 1)

sent_tokenize(text) == SentencesFrom(text, 1, 1)

\* position q of text holds a \w character
WordAt(text, q) == q >= 1 /\ q <= Len(text) /\ IsWord(text[q])

\* \b between positions q and q + 1 of text
Boundary(text, q) == WordAt(text, q) # WordAt(text, q + 1)

\* re.I match of \b pat \b at position p of text; pat is taken literally
\* (re.escape) or as the regular expression it is, where . matches any
\* character but the newline
MatchAt(text, pat, p, literal) ==
    /\ p + Len(pat) - 1 <= Len(text)
    /\ \A k \in 1..Len(pat) :
          \/ Fold(text[p + k - 1]) = Fold(pat[k])
          \/ ~literal /\ pat[k] = "." /\ text[p + k - 1] # "\n"
    /\ Boundary(text, p - 1)
    /\ Boundary(text, p + Len(pat) - 1)

\* m.start() of the matches re.finditer yields, scanning from position p
RECURSIVE MatchStarts(_, _, _, _)
MatchStarts(text, pat, p, literal) ==
    IF p > Len(text) + 1 THEN {}
    ELSE IF MatchAt(text, pat, p, literal)
    THEN {p - 1} \cup MatchStarts(text, pat, p + (IF pat = <<>> THEN 1 ELSE Len(pat)),
                                  literal)
    ELSE MatchStarts(text, pat, p + 1, literal)

\* [A-Z0-9\s\.\-\']
NounChar(c) == c \in Upper \cup Digit \cup {" ", "\t", "\n", ".", "-", "'"}

\* the last position of the run of NounChar that starts at p
RECURSIVE RunEnd(_, _)
RunEnd(text, p) ==
    IF p + 1 <= Len(text) /\ NounChar(text[p + 1]) THEN RunEnd(text, p + 1) ELSE p

\* re.findall( r'\b[A-Z][A-Z0-9\s\.\-\']+\b', text ), scanning from position p
RECURSIVE CapitalSpans(_, _)
CapitalSpans(text, p) ==
    IF p > Len(text) THEN <<>>
    ELSE IF text[p] \in Upper /\ Boundary(text, p - 1)
    THEN LET ends == { q \in (p + 1)..RunEnd(text, p) :
                          NounChar(text[q]) /\ Boundary(text, q) }
         IN IF ends = {} THEN CapitalSpans(text, p + 1)
            ELSE LET e == CHOOSE q \in ends : \A r \in ends : r <= q
                 IN <<Sub(text, p, e)>> \o CapitalSpans(text, e + 1)
    ELSE CapitalSpans(text, p + 1)

\* re.sub( r'^(A|I) ', '', s )
DropArticle(s) ==
    IF Len(s) >= 2 /\ s[1] \in {"A", "I"} /\ s[2] = " " THEN Sub(s, 3, Len(s)) ELSE s

\* discover_nouns: the ( name, THING ) of the capital spans of text whose
\* name is not registered
discover_nouns(P, text) ==
    LET spans == CapitalSpans(text, 1)
        kept == SelectSeq(spans, LAMBDA x :
                    /\ strip(x) # <<>>
                    /\ \E k \in 1..Len(x) : x[k] \in Upper
                    /\ strip(x) # <<"A">>
                    /\ strip(x) # <<"I">>
                    /\ x[Len(x)] # "'")
        provisional_names ==
            [k \in 1..Len(kept) |-> strip_leading(DropArticle(strip(kept[k])), kTHE)]
        fresh == SelectSeq(provisional_names, LAMBDA n : n \notin DOMAIN P.presence_ns)
    IN [k \in 1..Len(fresh) |-> <<fresh[k], THING>>]

\* get_name_offsets before it is sorted: the set of ( name, m.start() )
name_offset_set(P, text, new_nouns) ==
    UNION { { <<name, o>> : o \in MatchStarts(text, name, 1, TRUE) } :
                name \in DOMAIN P.presence_ns }
    \cup
    UNION { { <<new_nouns[k][1], o>> : o \in MatchStarts(text, new_nouns[k][1], 1, FALSE) } :
                k \in 1..Len(new_nouns) }

RECURSIVE SetToSeq(_)
\* the members of a set in one order of iteration
SetToSeq(S) ==
    IF S = {} THEN <<>>
    ELSE LET x == CHOOSE y \in S : TRUE IN <<x>> \o SetToSeq(S \ {x})

Reverse(s) == [k \in 1..Len(s) |-> s[Len(s) + 1 - k]]

\* sorted( list( set( result ) ), key=lambda x : x[1] ): a stable sort of the
\* set's order of iteration, which is one order or (flip) another for
\* members of equal offset
RECURSIVE SortByOffset(_, _)
SortByOffset(S, flip) ==
    IF S = {} THEN <<>>
    ELSE LET lo == CHOOSE o \in { x[2] : x \in S } : \A x \in S : o <= x[2]
             group == { x \in S : x[2] = lo }
             first == IF flip THEN Reverse(SetToSeq(group)) ELSE SetToSeq(group)
         IN first \o SortByOffset(S \ group, flip)

get_name_offsets(P, text, new_nouns, flip) ==
    SortByOffset(name_offset_set(P, text, new_nouns), flip)

-----------------------------------------------------------------------------
(* The sentence-level extractor: update_presence_and_interactions_for_lines. *)

\* F at the value of v: a local assigned once and read many times
Once(v, F(_)) == CHOOSE r \in { F(x) : x \in {v} } : TRUE

\* one ( name, offset ) of a sentence: the presence is built, registered and
\* linked to the scene location.  acc holds the world W, the presences of
\* the sentence so far and the presences of the block so far.
occurrence(acc, name_offset, ctx) ==
    IF acc.W.err # None THEN acc
    ELSE
    LET name == name_offset[1]
        total_offset == ctx.prior_offset + name_offset[2]
    IN
    Once(get_line_for_offset(ctx.line_offsets, total_offset), LAMBDA found :
    IF found.raised THEN [acc EXCEPT !.W.err = "IndexError"]
    ELSE
    Once(get_presence(<<name, get_noun_type_for_name(acc.W.P, name)>>,
                      ctx.presence_type, ctx.scene_id,
                      get_page_for_line(ctx.lines, found.line_no), found.line_no),
         LAMBDA presence :
    Once(register(acc.W, presence), LAMBDA W1 :
    Once(update_interaction(W1, ctx.scene_location, presence, presence.where, SETTING),
         LAMBDA W2 :
    [ W |-> W2,
      sent_presences |-> Append(acc.sent_presences, presence),
      result |-> Append(acc.result, presence) ]))))

RECURSIVE occurrences(_, _, _)
\* the loop over the name offsets of one sentence
occurrences(acc, name_offsets, ctx) ==
    IF name_offsets = <<>> THEN acc
    ELSE Once(occurrence(acc, Head(name_offsets), ctx), LAMBDA next_acc :
         occurrences(next_acc, Tail(name_offsets), ctx))

\* the interaction type the presences of one sentence are linked with
pair_interaction_type(presence_type) == APPEAR

RECURSIVE link_pairs(_, _, _, _, _)
\* the loop over itertools.combinations( sent_presences, 2 ), from pair (a, b)
link_pairs(W, ps, a, b, presence_type) ==
    IF a >= Len(ps) THEN W
    ELSE IF b > Len(ps) THEN link_pairs(W, ps, a + 1, a + 2, presence_type)
    ELSE Once(update_interaction(W, ps[a], ps[b], ps[a].where,
                                 pair_interaction_type(presence_type)),
              LAMBDA W1 : link_pairs(W1, ps, a, b + 1, presence_type))

\* sentence with the test of the mode made on the local variable mode of
\* compute_presence_and_interactions
sentence_local(acc, sent, ctx, flip) ==
    IF acc.W.err # None THEN acc
    ELSE
    Once(IF eng.mode = FUZZY THEN discover_nouns(acc.W.P, sent) ELSE <<>>,
         LAMBDA new_nouns :
    Once(get_name_offsets(acc.W.P, sent, new_nouns, flip), LAMBDA name_offsets :
    Once(occurrences([ W |-> acc.W, sent_presences |-> <<>>, result |-> acc.result ],
                     name_offsets, [ctx EXCEPT !.prior_offset = acc.prior_offset]),
         LAMBDA found :
    [ W |-> link_pairs(found.W, found.sent_presences, 1, 2, ctx.presence_type),
      result |-> found.result,
      prior_offset |-> acc.prior_offset + Len(sent) + 1 ])))

\* the body of the loop over sentences; acc holds W, the result so far and
\* prior_offset
sentence(acc, sent, ctx, flip) ==
    IF acc.W.err # None THEN acc
    ELSE
    Once(IF mode = FUZZY THEN discover_nouns(acc.W.P, sent) ELSE <<>>,
         LAMBDA new_nouns :
    Once(get_name_offsets(acc.W.P, sent, new_nouns, flip), LAMBDA name_offsets :
    Once(occurrences([ W |-> acc.W, sent_presences |-> <<>>, result |-> acc.result ],
                     name_offsets, [ctx EXCEPT !.prior_offset = acc.prior_offset]),
         LAMBDA found :
    [ W |-> link_pairs(found.W, found.sent_presences, 1, 2, ctx.presence_type),
      result |-> found.result,
      prior_offset |-> acc.prior_offset + Len(sent) + 1 ])))

RECURSIVE sentences(_, _, _, _)
\* the loop over the sentences of the text
sentences(acc, sents, ctx, flip) ==
    IF sents = <<>> THEN acc
    ELSE Once(sentence(acc, Head(sents), ctx, flip), LAMBDA next_acc :
         sentences(next_acc, Tail(sents), ctx, flip))

\* update_presence_and_interactions_for_lines: the world after it and the
\* presences it returns
update_presence_and_interactions_for_lines(W, lines, first_line, last_line, scene_id, scene_location, presence_type, flip) ==
    IF W.err # None THEN [ W |-> W, result |-> <<>> ]
    ELSE
    Once(CollapseBlanks(JoinLines(lines, first_line, last_line)), LAMBDA blanked :
    Once(get_line_offsets(blanked, first_line), LAMBDA line_offsets :
    Once(sent_tokenize(CollapseSpace(blanked)), LAMBDA sents :
    Once(sentences([ W |-> W, result |-> <<>>, prior_offset |-> 0 ], sents,
                   [ lines |-> lines, line_offsets |-> line_offsets,
                     prior_offset |-> 0, scene_id |-> scene_id,
                     scene_location |-> scene_location,
                     presence_type |-> presence_type ],
                   flip),
         LAMBDA swept : [ W |-> swept.W, result |-> swept.result ]))))

-----------------------------------------------------------------------------
(* Dialog blocks: update_presence_and_interactions_for_dialog. *)

RECURSIVE SortedKeys(_)
\* sorted( line_types, key=int )
SortedKeys(keys) ==
    IF keys = {} THEN <<>>
    ELSE LET k == CHOOSE x \in keys : \A y \in keys : int(x) <= int(y)
         IN <<k>> \o SortedKeys(keys \ {k})

\* prior_speaker = None
NoSpeaker == EmptyDict

RECURSIVE link_mentions(_, _, _)
\* every noun mentioned in a run is linked to prior_speaker
link_mentions(W, prior_speaker, mentioned) ==
    IF mentioned = <<>> THEN W
    ELSE Once(update_interaction(W, prior_speaker, Head(mentioned),
                                 Head(mentioned).where, MENTION),
              LAMBDA W1 : link_mentions(W1, prior_speaker, Tail(mentioned)))

\* flush_run with the sweep's default presence type
flush_run_appear(d, lines, scene_id, scene_location, flip) ==
    Once(update_presence_and_interactions_for_lines(
             d.W, lines, d.first_dialog_line, d.last_dialog_line,
             scene_id, scene_location, APPEAR, flip),
         LAMBDA swept :
    IF d.prior_speaker # NoSpeaker
    THEN link_mentions(swept.W, d.prior_speaker, swept.result)
    ELSE swept.W)

\* the running dialog lines are swept and their nouns linked to prior_speaker
flush_run(d, lines, scene_id, scene_location, flip) ==
    Once(update_presence_and_interactions_for_lines(
             d.W, lines, d.first_dialog_line, d.last_dialog_line,
             scene_id, scene_location, MENTION, flip),
         LAMBDA swept :
    IF d.prior_speaker # NoSpeaker
    THEN link_mentions(swept.W, d.prior_speaker, swept.result)
    ELSE swept.W)

\* dialog_header with prior_speaker = speaker assigned before the running
\* dialog lines are swept
dialog_header_early(d, lines, line_no, scene_id, scene_location, flip) ==
    Once(get_character_from_dialog_header(lines[line_no].content), LAMBDA character :
    IF character = <<>> THEN d
    ELSE
    Once(get_presence(<<character, CHARACTER>>, DISCUSS, scene_id,
                      get_page_for_line(lines, line_no), line_no),
         LAMBDA speaker :
    Once(register(d.W, speaker), LAMBDA W1 :
    Once(update_interaction(W1, scene_location, speaker, speaker.where, SETTING),
         LAMBDA W2 :
    Once([d EXCEPT !.W = W2, !.speakers_present = Append(@, speaker),
                   !.prior_speaker = speaker], LAMBDA d2 :
    IF d.running_dialog
    THEN [d2 EXCEPT !.W = flush_run(d2, lines, scene_id, scene_location, flip),
                    !.running_dialog = FALSE]
    ELSE d2)))))

\* a DIALOG_HEADER line of a dialog block
dialog_header(d, lines, line_no, scene_id, scene_location, flip) ==
    Once(get_character_from_dialog_header(lines[line_no].content), LAMBDA character :
    IF character = <<>> THEN d
    ELSE
    Once(get_presence(<<character, CHARACTER>>, DISCUSS, scene_id,
                      get_page_for_line(lines, line_no), line_no),
         LAMBDA speaker :
    Once(register(d.W, speaker), LAMBDA W1 :
    Once(update_interaction(W1, scene_location, speaker, speaker.where, SETTING),
         LAMBDA W2 :
    Once([d EXCEPT !.W = W2, !.speakers_present = Append(@, speaker)], LAMBDA d2 :
    IF d.running_dialog
    THEN [d2 EXCEPT !.W = flush_run(d2, lines, scene_id, scene_location, flip),
                    !.running_dialog = FALSE,
                    !.prior_speaker = speaker]
    ELSE [d2 EXCEPT !.prior_speaker = speaker])))))

\* the body of the loop over the lines of a dialog block
dialog_line(d, lines, line_no, line_type, scene_id, scene_location, flip) ==
    IF d.W.err # None THEN d
    ELSE IF line_type = DIALOG_HEADER
    THEN dialog_header(d, lines, line_no, scene_id, scene_location, flip)
    ELSE IF line_type = DIALOG
    THEN IF d.running_dialog
         THEN [d EXCEPT !.last_dialog_line = line_no]
         ELSE [d EXCEPT !.running_dialog = TRUE,
                        !.first_dialog_line = line_no,
                        !.last_dialog_line = line_no]
    ELSE d

RECURSIVE dialog_lines(_, _, _, _, _, _, _)
\* the loop over the lines of a dialog block
dialog_lines(d, lines, keys, block, scene_id, scene_location, flip) ==
    IF keys = <<>> THEN d
    ELSE Once(dialog_line(d, lines, int(Head(keys)), block.line_types[Head(keys)],
                          scene_id, scene_location, flip),
              LAMBDA next_d :
         dialog_lines(next_d, lines, Tail(keys), block, scene_id, scene_location, flip))

\* the test that skips a pair of speakers
skip_pair(speakers, s1_pos, s2_pos, dialog_recorded) ==
    \/ s2_pos <= s1_pos
    \/ speakers[s2_pos].name \in dialog_recorded
    \/ speakers[s1_pos].name = speakers[s2_pos].name

RECURSIVE discuss_pairs(_, _, _, _, _)
\* the two loops over speakers_present, from the pair (s1_pos, s2_pos)
discuss_pairs(W, speakers, s1_pos, s2_pos, dialog_recorded) ==
    IF s1_pos > Len(speakers) THEN W
    ELSE IF s2_pos > Len(speakers)
    THEN discuss_pairs(W, speakers, s1_pos + 1, 1,
                       dialog_recorded \cup {speakers[s1_pos].name})
    ELSE IF skip_pair(speakers, s1_pos, s2_pos, dialog_recorded)
    THEN discuss_pairs(W, speakers, s1_pos, s2_pos + 1, dialog_recorded)
    ELSE Once(update_interaction(W, speakers[s1_pos], speakers[s2_pos],
                                 speakers[s1_pos].where, DISCUSS),
              LAMBDA W1 :
         discuss_pairs(W1, speakers, s1_pos, s2_pos + 1, dialog_recorded))

update_presence_and_interactions_for_dialog(W, lines, scene_id, scene_location, block, flip) ==
    Once([ W |-> W, speakers_present |-> <<>>, running_dialog |-> FALSE,
           prior_speaker |-> NoSpeaker, first_dialog_line |-> 0,
           last_dialog_line |-> 0 ],
         LAMBDA d0 :
    Once(dialog_lines(d0, lines, SortedKeys(DOMAIN block.line_types), block,
                      scene_id, scene_location, flip),
         LAMBDA d1 :
    Once(IF d1.running_dialog
         THEN flush_run(d1, lines, scene_id, scene_location, flip)
         ELSE d1.W,
         LAMBDA W1 : discuss_pairs(W1, d1.speakers_present, 1, 1, {}))))

-----------------------------------------------------------------------------
(* The extraction engine: compute_presence_and_interactions. *)

\* sorted( script['scenes'], key=int )
SceneKeys(script) == SortedKeys(DOMAIN script.scenes)

\* the first position at or after (n, b), in the order of the two nested
\* loops over scenes and blocks, whose block has one of the given types;
\* scene Len + 1 when there is none
RECURSIVE NextBlock(_, _, _, _)
NextBlock(script, n, b, block_types) ==
    LET keys == SceneKeys(script) IN
    IF n > Len(keys) THEN [scene |-> n, block |-> 1]
    ELSE IF b > Len(script.scenes[keys[n]].scene_blocks)
    THEN NextBlock(script, n + 1, 1, block_types)
    ELSE IF script.scenes[keys[n]].scene_blocks[b].block_type \in block_types
    THEN [scene |-> n, block |-> b]
    ELSE NextBlock(script, n, b + 1, block_types)

\* the name is registered with authoritative type CHARACTER
known_character(P, name) ==
    name \in DOMAIN P.presence_ns /\ P.presence_ns[name][NounTypeKey] = CHARACTER

\* pass 1 on a SCENE_HEADING block: the scene location, and the world
pass1_heading(W, lines, block, scene_id) ==
    LET line == lines[block.first_line]
        name == get_scene_location(line.content)
        scene_location == get_presence(<<name, LOCATION>>, SETTING, scene_id,
                                       line.page_no, line.line_no)
    IN [ scene_location |-> scene_location,
         W |-> IF known_character(W.P, name) THEN W ELSE register(W, scene_location) ]

RECURSIVE pass2_locate(_, _, _, _, _, _, _)
\* pass 2's first loop over the blocks of a scene, from block b on
pass2_locate(P, lines, blocks, b, scene_id, scene_location, prior_scene_location) ==
    IF b > Len(blocks)
    THEN [ scene_location |-> scene_location,
           prior_scene_location |-> prior_scene_location, err |-> None ]
    ELSE IF blocks[b].block_type # SCENE_HEADING
    THEN pass2_locate(P, lines, blocks, b + 1, scene_id, scene_location,
                      prior_scene_location)
    ELSE LET name == get_scene_location(lines[blocks[b].first_line].content) IN
         IF known_character(P, name)
         THEN pass2_locate(P, lines, blocks, b + 1, scene_id, prior_scene_location,
                           prior_scene_location)
         ELSE IF \/ scene_id \notin DOMAIN P.presence_sn
                 \/ name \notin DOMAIN P.presence_sn[scene_id]
         THEN [ scene_location |-> scene_location,
                prior_scene_location |-> prior_scene_location, err |-> "KeyError" ]
         ELSE [ scene_location |-> P.presence_sn[scene_id][name][1],
                prior_scene_location |-> P.presence_sn[scene_id][name][1],
                err |-> None ]

\* the block of a scene that holds line first_line
enclosing_block(blocks, first_line) ==
    blocks[CHOOSE b \in 1..Len(blocks) :
              /\ blocks[b].first_line <= first_line /\ blocks[b].last_line >= first_line
              /\ \A c \in 1..(b - 1) :
                    ~(blocks[c].first_line <= first_line /\ blocks[c].last_line >= first_line)]

RECURSIVE spoken_words(_, _, _, _)
\* the loop over the line types of a dialog block that counts a speaker's words
spoken_words(lines, block, keys, first_line) ==
    IF keys = <<>> THEN 0
    ELSE LET line_no == int(Head(keys)) IN
         IF line_no < first_line THEN spoken_words(lines, block, Tail(keys), first_line)
         ELSE IF line_no = first_line
         THEN WordCount(lines[line_no].content)
              + spoken_words(lines, block, Tail(keys), first_line)
         ELSE IF block.line_types[Head(keys)] = DIALOG_HEADER THEN 0
         ELSE WordCount(lines[line_no].content)
              + spoken_words(lines, block, Tail(keys), first_line)

\* a presence as the post-pass leaves it: a DISCUSS presence gains dialog_words
augment(script, lines, presence) ==
    IF "presence_type" \notin DOMAIN presence \/ presence.presence_type # DISCUSS
    THEN presence
    ELSE LET block == enclosing_block(script.scenes[presence.where.scene_id].scene_blocks,
                                      presence.where.line_no)
         IN SetKey(presence, "dialog_words",
                   spoken_words(lines, block, SortedKeys(DOMAIN block.line_types),
                                presence.where.line_no))

\* The post-pass writes dialog_words into the presence objects, which the
\* log, the indices and the interactions all refer to: every reference to a
\* DISCUSS presence shows the new key.
MapSeq(f(_), q) == [k \in 1..Len(q) |-> f(q[k])]
MapLeaves2(f(_), d) == [x \in DOMAIN d |-> [y \in DOMAIN d[x] |-> f(d[x][y])]]
MapLeaves3(f(_), d) ==
    [x \in DOMAIN d |-> [y \in DOMAIN d[x] |-> [z \in DOMAIN d[x][y] |-> f(d[x][y][z])]]]

post_pass_presences(script, lines, P) ==
    LET aug(p) == augment(script, lines, p)
        augs(q) == MapSeq(aug, q)
    IN [ presences |-> augs(P.presences),
         presence_ns |->
             [n \in DOMAIN P.presence_ns |->
                 [k \in DOMAIN P.presence_ns[n] |->
                     IF k = NounTypeKey THEN P.presence_ns[n][k]
                     ELSE augs(P.presence_ns[n][k])]],
         presence_sn |-> MapLeaves2(augs, P.presence_sn) ]

post_pass_interactions(script, lines, I) ==
    LET aug(p) == augment(script, lines, p)
        augi(it) == [it EXCEPT !.a = aug(@), !.b = aug(@)]
        augs(q) == MapSeq(augi, q)
    IN [ interactions |-> augs(I.interactions),
         interaction_ns |-> MapLeaves3(augs, I.interaction_ns),
         interaction_sn |-> MapLeaves3(augs, I.interaction_sn) ]

-----------------------------------------------------------------------------
(* Screenplays the whole pipeline is run on: paragraphs of lines. *)

ParaCatalog ==
    { << <<"I","N","T","."," ","K">>, <<>> >>,                    \* heading, location K
      << <<"I","N","T","."," ","J","O">>, <<>> >>,                \* heading, location JO
      << <<" ","J","O">>,
         <<" ","J","O"," ","h","i"," ","K",".">>, <<>> >>,        \* JO speaks of JO and K
      << <<" ","A","L">>, <<" ","y","o">>, <<>> >>,               \* AL speaks
      << <<"A","L"," ","a","t"," ","K","."," ",
           "J","O"," ","h","i"," ","J","O">>, <<>> >> }          \* action, two sentences

RECURSIVE Flatten(_)
\* the lines of a sequence of paragraphs
Flatten(paras) == IF paras = <<>> THEN <<>> ELSE Head(paras) \o Flatten(Tail(paras))

\* the locals of compute_presence_and_interactions as pass 1 reaches its
\* first block
EngStart(script, parse_mode) ==
    LET first == NextBlock(script, 1, 1, {SCENE_HEADING, DIALOG}) IN
    [ mode |-> parse_mode,
      phase |-> "pass1", scene |-> first.scene, block |-> first.block,
      scene_location |-> EmptyDict, prior_scene_location |-> EmptyDict,
      err |-> None ]

\* Scenario A of the specification: a heading, a name and a speech, each
\* followed by an empty line
ScenarioA ==
    << <<"I","N","T","."," ","K","I","T","C","H","E","N"," ","-"," ","D","A","Y">>,
       <<>>,
       <<"J","O","H","N">>,
       <<>>,
       <<" "," ","H","e","l","l","o"," ","t","h","e","r","e",".">>,
       <<>> >>

\* a heading whose location JO K begins with the name of the speaker JO, and
\* a speech in which both names match at the same offset
TiedNames ==
    << <<"I","N","T","."," ","J","O"," ","K">>,
       <<>>,
       <<" ","J","O">>,
       <<" ","J","O"," ","K"," ","h","i",".">>,
       <<>> >>

\* an exchange of JO and AL with a header between their speeches that is a
\* parenthetical only, so that its character name is empty
SkippedHeader ==
    << <<"I","N","T","."," ","K">>, <<>>,
       <<" ","J","O">>, <<" ","h","i"," ","K",".">>, <<>>,
       <<" ","(","V",")">>, <<" ","y","o"," ","K",".">>, <<>>,
       <<" ","A","L">>, <<" ","A","L"," ","a","t"," ","K",".">>, <<>> >>

\* the inputs extraction is run on
ExtractInputs ==
    { Flatten(paras) : paras \in SeqsUpTo(ParaCatalog, MaxParas) }
        \cup { ScenarioA, TiedNames, SkippedHeader }

ExtractInit ==
    /\ mode \in {STRICT, FUZZY}
    /\ \E raw \in ExtractInputs, nl \in BOOLEAN :
          script_lines = MkLines(IF nl THEN WithNewlines(raw) ELSE raw)
    /\ pc = "load"
    /\ i = 0
    /\ seg = SegInit
    /\ Presences = PresencesInit
    /\ Interactions = InteractionsInit
    /\ eng = EngIdle

\* script = parse_script_lines( script_lines ), then the call of
\* compute_presence_and_interactions up to the first block of pass 1
ParseAll ==
    /\ pc = "load"
    /\ seg' = segment_finish(segment_loop(SegInit, script_lines, 1), script_lines)
    /\ i' = Len(script_lines)
    /\ \E parse_mode \in {STRICT, FUZZY} : eng' = EngStart(seg'.script, parse_mode)
    /\ pc' = "extract"
    /\ UNCHANGED <<mode, script_lines, Presences, Interactions>>

\* what an action leaves behind: the world, and the exception if one was raised
Leave(W, next_eng) ==
    /\ Presences' = W.P
    /\ Interactions' = W.I
    /\ eng' = [next_eng EXCEPT !.err = W.err]
    /\ pc' = IF W.err # None THEN "raised" ELSE pc

\* pass 1, one SCENE_HEADING or DIALOG block
Pass1Block ==
    /\ pc = "extract"
    /\ eng.phase = "pass1"
    /\ eng.scene <= Len(SceneKeys(seg.script))
    /\ LET scene_id == SceneKeys(seg.script)[eng.scene]
           block == seg.script.scenes[scene_id].scene_blocks[eng.block]
           next == NextBlock(seg.script, eng.scene, eng.block + 1, {SCENE_HEADING, DIALOG})
           W == World(Presences, Interactions)
       IN
       IF block.block_type = SCENE_HEADING
       THEN LET h == pass1_heading(W, script_lines, block, scene_id) IN
            Leave(h.W, [eng EXCEPT !.scene = next.scene, !.block = next.block,
                                   !.scene_location =
                                       IF next.scene = eng.scene THEN h.scene_location
                                       ELSE EmptyDict])
       ELSE \E flip \in BOOLEAN :
               Leave(update_presence_and_interactions_for_dialog(
                         W, script_lines, scene_id, eng.scene_location, block, flip),
                     [eng EXCEPT !.scene = next.scene, !.block = next.block,
                                 !.scene_location =
                                     IF next.scene = eng.scene THEN @ ELSE EmptyDict])
    /\ UNCHANGED <<mode, script_lines, i, seg>>

\* the end of pass 1: the second loop over the scenes begins
BeginPass2 ==
    /\ pc = "extract"
    /\ eng.phase = "pass1"
    /\ eng.scene > Len(SceneKeys(seg.script))
    /\ eng' = [eng EXCEPT !.phase = "pass2", !.scene = 1, !.block = 0,
                          !.scene_location = EmptyDict,
                          !.prior_scene_location = EmptyDict]
    /\ UNCHANGED <<mode, script_lines, pc, i, seg, Presences, Interactions>>

\* pass 2, the first loop over a scene's blocks: its location
Pass2Heading ==
    /\ pc = "extract"
    /\ eng.phase = "pass2"
    /\ eng.scene <= Len(SceneKeys(seg.script))
    /\ eng.block = 0
    /\ LET scene_id == SceneKeys(seg.script)[eng.scene]
           blocks == seg.script.scenes[scene_id].scene_blocks
           loc == pass2_locate(Presences, script_lines, blocks, 1, scene_id,
                               EmptyDict, eng.prior_scene_location)
           next == NextBlock(seg.script, eng.scene, 1, {ACTION_, DIRECTION})
       IN /\ eng' = [eng EXCEPT
                        !.scene_location = loc.scene_location,
                        !.prior_scene_location = loc.prior_scene_location,
                        !.err = loc.err,
                        !.scene = IF next.scene = eng.scene THEN @ ELSE @ + 1,
                        !.block = IF next.scene = eng.scene THEN next.block ELSE 0]
          /\ pc' = IF loc.err # None THEN "raised" ELSE pc
    /\ UNCHANGED <<mode, script_lines, i, seg, Presences, Interactions>>

\* pass 2, one ACTION or DIRECTION block
Pass2Block ==
    /\ pc = "extract"
    /\ eng.phase = "pass2"
    /\ eng.scene <= Len(SceneKeys(seg.script))
    /\ eng.block > 0
    /\ LET scene_id == SceneKeys(seg.script)[eng.scene]
           block == seg.script.scenes[scene_id].scene_blocks[eng.block]
           next == NextBlock(seg.script, eng.scene, eng.block + 1, {ACTION_, DIRECTION})
       IN \E flip \in BOOLEAN :
             Leave(update_presence_and_interactions_for_lines(
                       World(Presences, Interactions), script_lines,
                       block.first_line, block.last_line, scene_id,
                       eng.scene_location, APPEAR, flip).W,
                   [eng EXCEPT
                       !.scene = IF next.scene = eng.scene THEN @ ELSE @ + 1,
                       !.block = IF next.scene = eng.scene THEN next.block ELSE 0])
    /\ UNCHANGED <<mode, script_lines, i, seg>>

\* the post-pass over the DISCUSS presences, and the return
PostPass ==
    /\ pc = "extract"
    /\ eng.phase = "pass2"
    /\ eng.scene > Len(SceneKeys(seg.script))
    /\ Presences' = post_pass_presences(seg.script, script_lines, Presences)
    /\ Interactions' = post_pass_interactions(seg.script, script_lines, Interactions)
    /\ eng' = [eng EXCEPT !.phase = "done"]
    /\ pc' = "returned"
    /\ UNCHANGED <<mode, script_lines, i, seg>>

ExtractNext == ParseAll \/ Pass1Block \/ BeginPass2 \/ Pass2Heading \/ Pass2Block \/ PostPass

SpecExtract == ExtractInit /\ [][ExtractNext]_vars

-----------------------------------------------------------------------------
(* The registry driven through update_presence alone. *)

nJO == <<"J","O">>
nAL == <<"A","L">>
nK == <<"K">>

\* the presences the registry is handed: what get_presence builds for a
\* heading (LOCATION, SETTING), for a speaker (CHARACTER, DISCUSS) and for a
\* name found in text (any type, APPEAR)
RegPresences ==
    { get_presence(<<n, t[1]>>, t[2], str(sc), 1, 1) :
        n \in {nJO, nK},
        t \in { <<LOCATION, SETTING>>, <<CHARACTER, DISCUSS>>,
                <<THING, APPEAR>>, <<LOCATION, APPEAR>>, <<CHARACTER, APPEAR>> },
        sc \in 1..2 }

RegInit ==
    /\ mode = STRICT
    /\ script_lines = <<>>
    /\ pc = "api"
    /\ i = 0
    /\ seg = SegInit
    /\ Presences = PresencesInit
    /\ Interactions = InteractionsInit
    /\ eng = [ phase |-> "register", call |-> EmptyDict ]

\* one call of update_presence
Register ==
    /\ pc = "api"
    /\ Len(Presences.presences) < MaxRegs
    /\ \E presence \in RegPresences :
          /\ Presences' = update_presence(Presences, presence)
          /\ eng' = [eng EXCEPT !.call = presence]
    /\ UNCHANGED <<mode, script_lines, pc, i, seg, Interactions>>

RegNext == Register

SpecRegistry == RegInit /\ [][RegNext]_vars

-----------------------------------------------------------------------------
(* The graph driven through update_interaction alone. *)

\* the presences interactions are recorded between
GraphPresences ==
    { get_presence(<<nJO, CHARACTER>>, DISCUSS, str(1), 1, 1),
      get_presence(<<nJO, CHARACTER>>, DISCUSS, str(2), 1, 2),
      get_presence(<<nK, LOCATION>>, SETTING, str(1), 1, 1) }

GraphInit ==
    /\ mode = STRICT
    /\ script_lines = <<>>
    /\ pc = "api"
    /\ i = 0
    /\ seg = SegInit
    /\ Presences = PresencesInit
    /\ Interactions = InteractionsInit
    /\ eng = [ phase |-> "record", err |-> None ]

\* one call of update_interaction; a may be the empty scene location {}
Record ==
    /\ pc = "api"
    /\ Len(Interactions.interactions) < MaxRecs
    /\ \E a \in GraphPresences \cup {EmptyDict}, b \in GraphPresences,
          itype \in {SETTING, APPEAR} :
          \E where \in {b.where} \cup (IF a = EmptyDict THEN {} ELSE {a.where}) :
             LET W == update_interaction(World(Presences, Interactions),
                                         a, b, where, itype)
             IN /\ Interactions' = W.I
                /\ eng' = [eng EXCEPT !.err = W.err]
                /\ pc' = IF W.err # None THEN "raised" ELSE pc
    /\ UNCHANGED <<mode, script_lines, i, seg, Presences>>

GraphNext == Record

SpecGraph == GraphInit /\ [][GraphNext]_vars

-----------------------------------------------------------------------------
(* Claims about the segmenter, stated of the document parse_script_lines     *)
(* returns (pc = "parsed").                                                  *)

Returned == pc = "parsed"
OutScenes == seg.script.scenes
OutBlocks(k) == OutScenes[k].scene_blocks

\* the (scene, block) places of the returned document that hold line n
BlocksHolding(n) ==
    { p \in { <<k, b>> : k \in DOMAIN OutScenes, b \in 1..MaxLines + 2 } :
        /\ p[2] <= Len(OutBlocks(p[1]))
        /\ OutBlocks(p[1])[p[2]].first_line <= n
        /\ n <= OutBlocks(p[1])[p[2]].last_line }

\* C1: every line number after the front-matter span belongs to exactly one
\* block of exactly one scene of the returned document.
C1_EveryLineInOneBlock ==
    Returned =>
        \A n \in (seg.script.front.last_line + 1)..Len(script_lines) :
            Cardinality(BlocksHolding(n)) = 1

\* C2: in every returned scene the blocks are contiguous and non-overlapping:
\* the first starts at the scene's first_line, each next one starts right
\* after the one before ends, and the last ends at the scene's last_line.
C2_BlocksContiguous ==
    Returned =>
        \A k \in DOMAIN OutScenes :
            LET bs == OutBlocks(k) IN
            /\ Len(bs) >= 1
            /\ bs[1].first_line = OutScenes[k].first_line
            /\ bs[Len(bs)].last_line = OutScenes[k].last_line
            /\ \A b \in 1..Len(bs) : bs[b].first_line <= bs[b].last_line
            /\ \A b \in 1..(Len(bs) - 1) : bs[b].last_line + 1 = bs[b + 1].first_line

\* a returned scene that went through an extension, a type change and an
\* ERROR recovery
C2_Witness ==
    /\ Returned
    /\ \E k \in DOMAIN OutScenes :
          /\ Len(OutBlocks(k)) >= 3
          /\ \E b \in 1..Len(OutBlocks(k)) : OutBlocks(k)[b].block_type = ERROR
          /\ \E b \in 1..Len(OutBlocks(k)) :
                OutBlocks(k)[b].last_line > OutBlocks(k)[b].first_line

\* the SCENE_HEADING blocks of returned scene k
HeadingBlocks(k) ==
    { b \in 1..Len(OutBlocks(k)) : OutBlocks(k)[b].block_type = SCENE_HEADING }

\* C3: the scene keys of the returned document are exactly str(1)..str(N) for
\* some N >= 0, scene k is numbered k and holds exactly one SCENE_HEADING
\* block, and the stub scene 0 is not in the output.
C3_SceneKeysContiguous ==
    Returned =>
        /\ str(0) \notin DOMAIN OutScenes
        /\ \E N \in 0..Len(script_lines) :
              DOMAIN OutScenes = { str(k) : k \in 1..N }
        /\ \A k \in DOMAIN OutScenes :
              /\ OutScenes[k].scene_number = int(k)
              /\ Cardinality(HeadingBlocks(k)) = 1

\* a returned document of two scenes
C3_Witness == Returned /\ Cardinality(DOMAIN OutScenes) >= 2

\* every block of the returned document, as (scene key, position)
AllOutBlocks ==
    { p \in { <<k, b>> : k \in DOMAIN OutScenes, b \in 1..MaxLines + 2 } :
        p[2] <= Len(OutBlocks(p[1])) }

RECURSIVE SumBlocks(_)
\* the sum of total_words over a set of places of the returned document
SumBlocks(ps) ==
    IF ps = {} THEN 0
    ELSE LET p == CHOOSE x \in ps : TRUE
         IN OutBlocks(p[1])[p[2]].total_words + SumBlocks(ps \ {p})

\* C4: the document's total_words is the sum of its scenes' total_words, a
\* scene's total_words is the sum of its blocks' total_words, EMPTY blocks
\* count zero, and dialog_words <= total_words for every scene and for the
\* document.
C4_WordTotals ==
    Returned =>
        /\ seg.script.total_words = SumBlocks(AllOutBlocks)
        /\ seg.script.total_words =
              SumSeq([n \in 1..Cardinality(DOMAIN OutScenes) |-> OutScenes[str(n)].total_words])
        /\ seg.script.dialog_words <= seg.script.total_words
        /\ \A k \in DOMAIN OutScenes :
              /\ OutScenes[k].total_words =
                    SumBlocks({ p \in AllOutBlocks : p[1] = k })
              /\ OutScenes[k].dialog_words <= OutScenes[k].total_words
              /\ \A b \in 1..Len(OutBlocks(k)) :
                    OutBlocks(k)[b].block_type = EMPTY
                        => OutBlocks(k)[b].total_words = 0

\* a returned scene with dialog words, other words and an EMPTY block
C4_Witness ==
    /\ Returned
    /\ \E k \in DOMAIN OutScenes :
          /\ OutScenes[k].dialog_words > 0
          /\ OutScenes[k].total_words > OutScenes[k].dialog_words
          /\ \E b \in 1..Len(OutBlocks(k)) : OutBlocks(k)[b].block_type = EMPTY

-----------------------------------------------------------------------------
(* Claims about the registry. *)

\* THING < LOCATION < CHARACTER
Rank(t) == IF t = THING THEN 0 ELSE IF t = LOCATION THEN 1 ELSE 2

AuthType(P, name) == P.presence_ns[name][NounTypeKey]

\* C5: a name's authoritative noun type never moves down the lattice
\* THING < LOCATION < CHARACTER: every step keeps every registered name
\* registered, with a type at least as high as before.
C5_PromotionMonotonic ==
    [][ \A n \in DOMAIN Presences.presence_ns :
           /\ n \in DOMAIN Presences'.presence_ns
           /\ Rank(AuthType(Presences', n)) >= Rank(AuthType(Presences, n)) ]_vars

\* a CHARACTER name that was registered again with a lower type and is
\* still CHARACTER
C5_Witness ==
    \E k \in 1..Len(Presences.presences) : \E m \in (k + 1)..Len(Presences.presences) :
        /\ Presences.presences[k].name = Presences.presences[m].name
        /\ Presences.presences[k].noun_type = CHARACTER
        /\ Presences.presences[m].noun_type \in {LOCATION, THING}
        /\ AuthType(Presences, Presences.presences[k].name) = CHARACTER

\* the call just made carried a LOCATION presence for a name that was
\* CHARACTER when it was made
RejectedCall ==
    /\ "name" \in DOMAIN eng'.call
    /\ Len(Presences'.presences) # Len(Presences.presences)
    /\ eng'.call.noun_type = LOCATION
    /\ eng'.call.name \in DOMAIN Presences.presence_ns
    /\ AuthType(Presences, eng'.call.name) = CHARACTER

\* C6 as claimed: a LOCATION-typed register call for a CHARACTER name leaves
\* the presence log, both noun indices and the authoritative type as they were.
C6_RejectedLeavesRegistry ==
    [][ RejectedCall => Presences' = Presences ]_vars

\* C6 as amended: a LOCATION-typed register call for a CHARACTER name leaves
\* every name's authoritative type as it was; the presence is still appended
\* to the log and to both indices, which are otherwise as they were.
C6_RejectedKeepsTypes ==
    [][ RejectedCall =>
          LET p == eng'.call
              n == p.name
              sc == p.where.scene_id
          IN
          /\ DOMAIN Presences'.presence_ns = DOMAIN Presences.presence_ns
          /\ \A m \in DOMAIN Presences.presence_ns :
                AuthType(Presences', m) = AuthType(Presences, m)
          /\ Presences'.presences = Append(Presences.presences, p)
          /\ \A m \in DOMAIN Presences.presence_ns \ {n} :
                Presences'.presence_ns[m] = Presences.presence_ns[m]
          /\ Presences'.presence_ns[n][sc][Len(Presences'.presence_ns[n][sc])] = p
          /\ Presences'.presence_sn[sc][n][Len(Presences'.presence_sn[sc][n])] = p
      ]_vars

\* a LOCATION presence registered for a name that was already CHARACTER
C6_Witness ==
    LET ps == Presences.presences IN
    /\ Len(ps) >= 2
    /\ ps[Len(ps)] = eng.call
    /\ eng.call.noun_type = LOCATION
    /\ \E k \in 1..(Len(ps) - 1) :
          ps[k].name = eng.call.name /\ ps[k].noun_type = CHARACTER
    /\ AuthType(Presences, eng.call.name) = CHARACTER

RECURSIVE SelectSeq2(_, _, _)
\* the presences of a log for one name and scene, in the order of the log
SelectSeq2(ps, name, scene_id) ==
    IF ps = <<>> THEN <<>>
    ELSE (IF Head(ps).name = name /\ Head(ps).where.scene_id = scene_id
          THEN <<Head(ps)>> ELSE <<>>) \o SelectSeq2(Tail(ps), name, scene_id)

\* C8: every presence of the log is in presence_ns[name][scene_id] and in
\* presence_sn[scene_id][name], and each of those lists is the log's
\* presences of that name and scene in the order they were appended.
C8_PresenceIndexed ==
    \A k \in 1..Len(Presences.presences) :
        LET p == Presences.presences[k]
            n == p.name
            sc == p.where.scene_id
            mine == SelectSeq2(Presences.presences, n, sc)
        IN
        /\ n \in DOMAIN Presences.presence_ns
        /\ sc \in DOMAIN Presences.presence_ns[n]
        /\ Presences.presence_ns[n][sc] = mine
        /\ sc \in DOMAIN Presences.presence_sn
        /\ n \in DOMAIN Presences.presence_sn[sc]
        /\ Presences.presence_sn[sc][n] = mine

\* a scene with two presences of one name and a presence of another name
\* registered between them
C8_Witness ==
    LET ps == Presences.presences IN
    /\ Len(ps) >= 3
    /\ ps[1].name = ps[3].name /\ ps[1].name # ps[2].name
    /\ ps[1].where.scene_id = ps[2].where.scene_id
    /\ ps[1].where.scene_id = ps[3].where.scene_id
    /\ ps[1] # ps[3]

-----------------------------------------------------------------------------
(* Claims about the graph. *)

\* interaction it is in the list d[x][y][z]
Indexed(d, x, y, z, it) ==
    /\ x \in DOMAIN d
    /\ y \in DOMAIN d[x]
    /\ z \in DOMAIN d[x][y]
    /\ \E k \in 1..Len(d[x][y][z]) : d[x][y][z][k] = it

\* interaction it has two participants, each with a name
HasParticipants(it) == "name" \in DOMAIN it.a /\ "name" \in DOMAIN it.b

-----------------------------------------------------------------------------
(* Claims about the extraction engine, stated of the log of interactions.    *)

\* C9: no interaction of the log has two participants of the same name.
C9_NoSelfInteraction ==
    \A k \in 1..Len(Interactions.interactions) :
        LET it == Interactions.interactions[k]
        IN HasParticipants(it) => it.a.name # it.b.name

\* the DIALOG blocks pass 1 has finished, as <<scene index, block index>>
DialogBlocksDone ==
    IF pc \notin {"extract", "returned"} \/ "scene" \notin DOMAIN eng THEN {}
    ELSE LET keys == SceneKeys(seg.script) IN
         { p \in { <<n, b>> : n \in 1..Len(keys), b \in 1..i } :
             /\ p[2] <= Len(seg.script.scenes[keys[p[1]]].scene_blocks)
             /\ seg.script.scenes[keys[p[1]]].scene_blocks[p[2]].block_type = DIALOG
             /\ \/ eng.phase # "pass1"
                \/ p[1] < eng.scene
                \/ p[1] = eng.scene /\ p[2] < eng.block }

\* place where is in block b of scene scene_id
InBlock(where, scene_id, block) ==
    /\ where.scene_id = scene_id
    /\ block.first_line <= where.line_no
    /\ where.line_no <= block.last_line

\* the speakers registered from the headers of a block, as positions of the log
SpeakersOf(scene_id, block) ==
    { k \in 1..Len(Presences.presences) :
        /\ Presences.presences[k].presence_type = DISCUSS
        /\ InBlock(Presences.presences[k].where, scene_id, block) }

\* the DISCUSS interactions recorded for a block, as positions of the log
DiscussOf(scene_id, block) ==
    { k \in 1..Len(Interactions.interactions) :
        /\ Interactions.interactions[k].interaction_type = DISCUSS
        /\ InBlock(Interactions.interactions[k].where, scene_id, block) }

\* C10: in every DIALOG block handled, each unordered pair of distinct
\* speaker names has exactly one DISCUSS interaction, from the earlier
\* speaker to the later one at the earlier speaker's where, and no DISCUSS
\* interaction links a name to itself.
C10_OneDiscussPerPair ==
    \A p \in DialogBlocksDone :
        LET scene_id == SceneKeys(seg.script)[p[1]]
            block == seg.script.scenes[scene_id].scene_blocks[p[2]]
            its == Interactions.interactions
            ps == Presences.presences
        IN /\ \A k \in DiscussOf(scene_id, block) :
                 /\ its[k].a.name # its[k].b.name
                 /\ its[k].where = its[k].a.where
                 /\ its[k].a.where.line_no < its[k].b.where.line_no
           /\ \A x, y \in SpeakersOf(scene_id, block) :
                 ps[x].name # ps[y].name =>
                    Cardinality({ k \in DiscussOf(scene_id, block) :
                                    {its[k].a.name, its[k].b.name}
                                        = {ps[x].name, ps[y].name} }) = 1

-----------------------------------------------------------------------------
(* Claims about scene headings that name a character. *)

\* the line of the heading of scene scene_id
HeadingLine(scene_id) ==
    LET blocks == seg.script.scenes[scene_id].scene_blocks
    IN blocks[CHOOSE b \in 1..Len(blocks) :
                 /\ blocks[b].block_type = SCENE_HEADING
                 /\ \A c \in 1..(b - 1) : blocks[c].block_type # SCENE_HEADING].first_line

\* the location name the heading of scene scene_id resolves to
HeadingName(scene_id) == get_scene_location(script_lines[HeadingLine(scene_id)].content)

\* the name of the heading of scene scene_id was registered as a CHARACTER
\* when pass 1 reached the heading: a speaker of an earlier scene has it
RejectedInPass1(scene_id) ==
    \E k \in 1..Len(Presences.presences) :
        /\ Presences.presences[k].presence_type = DISCUSS
        /\ Presences.presences[k].name = HeadingName(scene_id)
        /\ int(Presences.presences[k].where.scene_id) < int(scene_id)

\* presence p is the SETTING presence built from the heading of scene scene_id
IsHeadingPresence(p, scene_id) ==
    /\ "name" \in DOMAIN p
    /\ p.presence_type = SETTING
    /\ p.name = HeadingName(scene_id)
    /\ p.where.scene_id = scene_id
    /\ p.where.line_no = HeadingLine(scene_id)

\* C11: for a scene whose heading names a registered CHARACTER, no presence
\* is registered for the heading and no SETTING interaction of the scene
\* has the heading's presence as its location.
C11_RejectedHeadingUnused ==
    \A scene_id \in DOMAIN seg.script.scenes :
        RejectedInPass1(scene_id) =>
            /\ \A k \in 1..Len(Presences.presences) :
                  ~IsHeadingPresence(Presences.presences[k], scene_id)
            /\ \A k \in 1..Len(Interactions.interactions) :
                  LET it == Interactions.interactions[k]
                  IN (it.interaction_type = SETTING /\ it.where.scene_id = scene_id)
                        => ~IsHeadingPresence(it.a, scene_id)

-----------------------------------------------------------------------------
(* Claims about the engine as a whole. *)

\* C12: no run of compute_presence_and_interactions ends in an exception;
\* every segmented document is swept to the end.
C12_NeverRaises == pc # "raised"

-----------------------------------------------------------------------------
(* Claims about classification, stated of get_types and of the loop of       *)
(* parse_script_lines.                                                        *)

\* the block types and line types
AllTypes ==
    { ACTION_, CONTINUED, DIALOG, DIALOG_HEADER, DIRECTION, EMPTY, ERROR, FRONT,
      PAGE_NUM, RESUMED, SCENE_HEADING }
TypePairs == AllTypes \X AllTypes

\* next_line as the loop passes it for line idx
Lookahead(lines, idx) ==
    IF idx + 1 <= Len(lines) THEN <<lines[idx + 1].content>> ELSE NoNextLine

\* get_types of the first line of the input under prior classification prior
FirstTypes(prior) == get_types(script_lines[1].content, Lookahead(script_lines, 1), prior)

\* before the first line is read: get_types returns a pair for the first
\* line and its lookahead under every prior classification (inputs of one
\* and two lines hold every line with every lookahead, absent or present)
TotalOnFirstLine ==
    (pc = "parse" /\ i = 0 /\ Len(script_lines) \in {1, 2}) =>
        \A prior \in TypePairs : FirstTypes(prior) \in TypePairs

\* the line read after a line classified ERROR is classified with that
\* classification as its prior
ErrorIsPrior ==
    (pc = "parse" /\ i >= 1 /\ i' = i + 1 /\ seg.types[1] = ERROR) =>
        /\ seg.prior_types = seg.types
        /\ seg'.types = get_types(script_lines[i'].content,
                                  Lookahead(script_lines, i'), seg.types)

\* every step reads the next line, or returns once all lines are read
ConsumesOrReturns ==
    pc = "parse" =>
        \/ i < Len(script_lines) /\ i' = i + 1 /\ pc' = "parse"
        \/ i = Len(script_lines) /\ i' = i /\ pc' = "parsed"

\* C13: get_types returns a pair of types for every line, lookahead and
\* prior classification; the loop reads every line, classifies the line
\* after an ERROR line against that ERROR classification, and returns.
C13_ClassifiesAndConsumes ==
    /\ [](TotalOnFirstLine /\ seg.types \in TypePairs /\ i <= Len(script_lines))
    /\ [][ErrorIsPrior /\ ConsumesOrReturns]_vars

\* a returned document with two ERROR blocks in a row: the second line was
\* classified against the ERROR classification of the first
C13_Witness ==
    /\ Returned
    /\ i = Len(script_lines)
    /\ \E k \in DOMAIN OutScenes : \E b \in 1..(Len(OutBlocks(k)) - 1) :
          /\ OutBlocks(k)[b].block_type = ERROR
          /\ OutBlocks(k)[b + 1].block_type = ERROR
          /\ OutBlocks(k)[b + 1].first_line = OutBlocks(k)[b].last_line + 1

-----------------------------------------------------------------------------
(* Claims about the order of the two passes. *)

\* the (scene, block) places of the document whose block has one of the types
BlocksOfTypes(block_types) ==
    LET keys == SceneKeys(seg.script) IN
    { p \in { <<n, b>> : n \in 1..Len(keys), b \in 1..i } :
        /\ p[2] <= Len(seg.script.scenes[keys[p[1]]].scene_blocks)
        /\ seg.script.scenes[keys[p[1]]].scene_blocks[p[2]].block_type \in block_types }

\* in the presence log no SETTING or DISCUSS presence follows an APPEAR presence
AppearAfterPass1 ==
    \A j, k \in 1..Len(Presences.presences) :
        (j < k /\ Presences.presences[j].presence_type = APPEAR)
            => Presences.presences[k].presence_type \notin {SETTING, DISCUSS}

\* during pass 1 nothing has been swept: the log holds no APPEAR presence
NoSweepInPass1 ==
    eng.phase = "pass1" =>
        \A k \in 1..Len(Presences.presences) :
            Presences.presences[k].presence_type # APPEAR

\* pass 2 begins only when pass 1 is past every SCENE_HEADING and DIALOG block
Pass2BeginsLast ==
    (eng.phase = "pass1" /\ eng'.phase = "pass2") =>
        \A p \in BlocksOfTypes({SCENE_HEADING, DIALOG}) :
            \/ p[1] < eng.scene
            \/ p[1] = eng.scene /\ p[2] < eng.block

\* C14: pass 1 is over for all scenes before pass 2 begins for any scene:
\* every APPEAR presence of the log comes after every SETTING and DISCUSS
\* presence, and no block is swept while pass 1 has a block left.
C14_Pass1BeforePass2 ==
    /\ [](AppearAfterPass1 /\ NoSweepInPass1)
    /\ [][Pass2BeginsLast]_vars

\* the sweep of scene 1 found a name after a speaker of scene 2 was registered
C14_Witness ==
    \E j, k \in 1..Len(Presences.presences) :
        /\ j < k
        /\ Presences.presences[j].presence_type = DISCUSS
        /\ Presences.presences[j].where.scene_id = str(2)
        /\ Presences.presences[k].presence_type = APPEAR
        /\ Presences.presences[k].where.scene_id = str(1)

-----------------------------------------------------------------------------
(* Claims about a stage direction on the first line of the input. *)

\* the first line of the input has been read and has the shape of a stage
\* direction
FirstLineIsDirection ==
    /\ pc = "parse" /\ i >= 1
    /\ is_direction(script_lines[1].content)

\* C15 as stated: a direction-shaped first line is classified ERROR, and
\* the line after it is classified against the FRONT classification.
C15_FirstDirectionIsError ==
    (FirstLineIsDirection /\ i = 1) =>
        /\ seg.types[1] = ERROR
        /\ seg.prior_types = <<FRONT, FRONT>>

\* C15 amended: a direction-shaped first line is classified (FRONT, FRONT)
\* and only extends the front span: no block and no scene is opened, and
\* the line after it is classified against the FRONT classification.
C15_FirstDirectionIsFront ==
    /\ (FirstLineIsDirection /\ i = 1) =>
          /\ seg.types = <<FRONT, FRONT>>
          /\ seg.prior_types = <<FRONT, FRONT>>
          /\ seg.script.front = [first_line |-> 1, last_line |-> 1]
          /\ seg.script.scenes = SegInit.script.scenes
          /\ seg.current_scene = SegInit.current_scene
          /\ seg.current_block = SegInit.current_block
    /\ (FirstLineIsDirection /\ i = 2) =>
          seg.types = get_types(script_lines[2].content,
                                Lookahead(script_lines, 2), <<FRONT, FRONT>>)

\* a direction-shaped first line followed by a line that leaves the front
\* matter
C15_Witness ==
    /\ FirstLineIsDirection /\ i = 2
    /\ seg.script.front = [first_line |-> 1, last_line |-> 1]
    /\ seg.types = <<SCENE_HEADING, SCENE_HEADING>>

-----------------------------------------------------------------------------
(* Claims about Scenario A. *)

kKITCHEN == <<"K","I","T","C","H","E","N">>
kJOHN == <<"J","O","H","N">>

\* the input is Scenario A, with or without the newline of each line
OnScenarioA ==
    script_lines \in { MkLines(ScenarioA), MkLines(WithNewlines(ScenarioA)) }

\* the document has a DIALOG block over lines 3 to 5, a DIALOG_HEADER line
\* first and a DIALOG line last
ScenarioDialogBlock ==
    \E k \in DOMAIN OutScenes : \E b \in 1..Len(OutBlocks(k)) :
        /\ OutBlocks(k)[b].block_type = DIALOG
        /\ \E key \in DOMAIN OutBlocks(k)[b].line_types :
              int(key) = 3 /\ OutBlocks(k)[b].line_types[key] = DIALOG_HEADER
        /\ \E key \in DOMAIN OutBlocks(k)[b].line_types :
              /\ int(key) = OutBlocks(k)[b].last_line
              /\ OutBlocks(k)[b].line_types[key] = DIALOG

\* C16 as stated: Scenario A yields one scene located at KITCHEN, with a
\* DIALOG block of a header line for JOHN and a DIALOG line, a DISCUSS
\* presence of JOHN and a SETTING interaction linking KITCHEN and JOHN.
C16_ScenarioA ==
    (OnScenarioA /\ pc \in {"returned", "raised"}) =>
        /\ pc = "returned"
        /\ Cardinality(DOMAIN OutScenes) = 1
        /\ \E n \in 1..Len(Presences.presences) :
              /\ Presences.presences[n].name = kKITCHEN
              /\ Presences.presences[n].presence_type = SETTING
        /\ ScenarioDialogBlock
        /\ \E n \in 1..Len(Presences.presences) :
              /\ Presences.presences[n].name = kJOHN
              /\ Presences.presences[n].presence_type = DISCUSS
        /\ \E n \in 1..Len(Interactions.interactions) :
              LET x == Interactions.interactions[n] IN
              /\ x.interaction_type = SETTING
              /\ x.a # EmptyDict /\ x.b # EmptyDict
              /\ {x.a.name, x.b.name} = {kKITCHEN, kJOHN}

-----------------------------------------------------------------------------
(* Claims about the order of iteration of sets and dictionaries. *)

\* pass 1 is at a DIALOG block
AtDialogBlock ==
    /\ pc = "extract" /\ eng.phase = "pass1"
    /\ eng.scene <= Len(SceneKeys(seg.script))
    /\ seg.script.scenes[SceneKeys(seg.script)[eng.scene]].scene_blocks[eng.block].block_type
           = DIALOG

\* what update_presence_and_interactions_for_dialog leaves of the registry
\* and the graph for the block pass 1 is at, under one order of iteration
DialogOutcome(flip) ==
    LET scene_id == SceneKeys(seg.script)[eng.scene]
        W == update_presence_and_interactions_for_dialog(
                 World(Presences, Interactions), script_lines, scene_id,
                 eng.scene_location, seg.script.scenes[scene_id].scene_blocks[eng.block],
                 flip)
    IN <<W.P, W.I, W.err>>

\* C17: the presence log and the interaction log extraction yields do not
\* depend on the order of iteration of the set that deduplicates the name
\* occurrences of a sentence, so that two runs on the same lines agree.
C17_OrderIndependent ==
    AtDialogBlock => DialogOutcome(TRUE) = DialogOutcome(FALSE)

-----------------------------------------------------------------------------
(* Claims about page-number lines. *)

\* the classification of a page-number line under prior classification prior
PageNumTypes(prior) ==
    IF prior[1] = FRONT THEN <<FRONT, FRONT>>
    ELSE IF prior[2] = CONTINUED THEN <<prior[1], CONTINUED>>
    ELSE <<PAGE_NUM, PAGE_NUM>>

\* C18 as stated: a page-number line is classified (PAGE_NUM, PAGE_NUM)
\* whatever the prior classification.
C18_PageNumAlways ==
    (pc = "parse" /\ i >= 1 /\ is_page_num(script_lines[i].content)) =>
        seg.types = <<PAGE_NUM, PAGE_NUM>>

\* get_types of a page-number first line under every prior classification
PageNumUnderEveryPrior ==
    (pc = "parse" /\ i = 0 /\ Len(script_lines) \in {1, 2}
        /\ is_page_num(script_lines[1].content)) =>
        \A prior \in TypePairs : FirstTypes(prior) = PageNumTypes(prior)

\* the loop classifies a page-number line by the classification it holds
PageNumInLoop ==
    (pc = "parse" /\ i' = i + 1 /\ is_page_num(script_lines[i'].content)) =>
        seg'.types = PageNumTypes(seg.prior_types)

\* C18 amended: a page-number line is classified (PAGE_NUM, PAGE_NUM) for
\* every prior classification whose block type is not FRONT and whose line
\* type is not CONTINUED; it is (FRONT, FRONT) when the prior block type is
\* FRONT, and otherwise keeps the prior block type with line type CONTINUED
\* when the prior line type is CONTINUED.
C18_PageNumByPriority ==
    /\ []PageNumUnderEveryPrior
    /\ [][PageNumInLoop]_vars

\* a page-number line that opened a PAGE_NUM block, and a later one read
\* inside a page break, which stayed CONTINUED in that block
C18_Witness ==
    /\ pc = "parse" /\ i >= 3
    /\ is_page_num(script_lines[i].content)
    /\ seg.types = <<PAGE_NUM, CONTINUED>>
    /\ is_page_num(script_lines[seg.current_block.first_line].content)
    /\ seg.current_block.block_type = PAGE_NUM
    /\ seg.current_block.last_line = i

-----------------------------------------------------------------------------
(* Claims about the type of the interactions within a sentence. *)

\* the interactions recorded between two presences of one presence type
PairsOf(presence_type) ==
    { n \in 1..Len(Interactions.interactions) :
        LET x == Interactions.interactions[n] IN
        /\ x.a # EmptyDict /\ x.b # EmptyDict
        /\ x.a.presence_type = presence_type
        /\ x.b.presence_type = presence_type }

\* C19: an interaction between two presences found in one sentence carries
\* the presence type of the sweep that found them: MENTION between the
\* MENTION presences of a dialog run, APPEAR between the APPEAR presences
\* of an ACTION or DIRECTION block.
C19_PairsCarryPresenceType ==
    \A presence_type \in {MENTION, APPEAR} : \A n \in PairsOf(presence_type) :
        Interactions.interactions[n].interaction_type = presence_type

-----------------------------------------------------------------------------
(* Claims about the location pass 2 gives a scene. *)

\* pass 1 registered the SETTING presence of the heading of scene scene_id
AcceptedInPass1(scene_id) ==
    \E k \in 1..Len(Presences.presences) :
        IsHeadingPresence(Presences.presences[k], scene_id)

\* pass 2 is at the first loop over the blocks of a scene
AtPass2Heading ==
    /\ pc = "extract" /\ eng.phase = "pass2" /\ eng.block = 0
    /\ eng.scene <= Len(SceneKeys(seg.script))

\* the step that locates a scene in pass 2 takes the presence pass 1
\* registered for its heading, and falls back to the prior location exactly
\* when pass 1 registered none
Pass2AgreesWithPass1 ==
    (AtPass2Heading /\ eng' # eng) =>
        LET scene_id == SceneKeys(seg.script)[eng.scene] IN
        /\ pc' = "extract"
        /\ IF AcceptedInPass1(scene_id)
           THEN IsHeadingPresence(eng'.scene_location, scene_id)
           ELSE eng'.scene_location = eng.prior_scene_location

\* C20: the heading of a scene is accepted in pass 2 if and only if pass 1
\* accepted it, and the location pass 2 uses for the scene is the SETTING
\* presence pass 1 registered for it.
C20_Pass2AgreesWithPass1 == [][Pass2AgreesWithPass1]_vars

-----------------------------------------------------------------------------
(* Claims about the lines of a page break. *)

\* the classification of a line read inside a page break under prior
ContinuedTypes(line, prior) ==
    <<prior[1], IF is_end_continue(line) THEN RESUMED ELSE CONTINUED>>

\* get_types of the first line under every prior classification of line
\* type CONTINUED and a block type other than FRONT
ContinuedUnderEveryPrior ==
    (pc = "parse" /\ i = 0 /\ Len(script_lines) \in {1, 2}) =>
        \A block_type \in AllTypes \ {FRONT} :
            FirstTypes(<<block_type, CONTINUED>>)
                = ContinuedTypes(script_lines[1].content, <<block_type, CONTINUED>>)

\* the loop keeps the block type on every line read inside a page break
ContinuedInLoop ==
    (pc = "parse" /\ i' = i + 1 /\ i >= 1
        /\ seg.prior_types[2] = CONTINUED /\ seg.prior_types[1] # FRONT) =>
        /\ seg'.types = ContinuedTypes(script_lines[i'].content, seg.prior_types)
        /\ seg'.types[1] = seg.types[1]

\* C21: with prior line type CONTINUED and a prior block type other than
\* FRONT, a line that is no page-break end marker is classified (prior block
\* type, CONTINUED) whatever its shape and an end marker (prior block type,
\* RESUMED); the block type stays fixed until the end marker.
C21_ContinuedUntilResumed ==
    /\ []ContinuedUnderEveryPrior
    /\ [][ContinuedInLoop]_vars

\* a page break closed by its end marker after a line that is no marker
C21_Witness ==
    /\ pc = "parse" /\ i >= 4
    /\ is_start_continue(script_lines[i - 2].content)
    /\ ~is_start_continue(script_lines[i - 1].content)
    /\ ~is_end_continue(script_lines[i - 1].content)
    /\ ~is_empty_line(script_lines[i - 1].content)
    /\ is_end_continue(script_lines[i].content)
    /\ seg.types = <<ACTION_, RESUMED>>
    /\ seg.current_block.block_type = ACTION_
    /\ seg.current_block.first_line = i - 3
    /\ seg.current_block.last_line = i

-----------------------------------------------------------------------------
(* Claims about empty lines. *)

\* the classification of an empty line with lookahead next_line under prior
EmptyTypes(next_line, prior) ==
    IF prior = <<DIALOG, DIALOG_HEADER>> THEN <<ERROR, EMPTY>>
    ELSE IF \/ /\ prior = <<DIALOG, DIALOG>>
               /\ next_line # NoNextLine /\ is_dialog_header(next_line[1])
            \/ prior = <<DIALOG, RESUMED>>
    THEN <<DIALOG, EMPTY>>
    ELSE <<EMPTY, EMPTY>>

\* the prior classifications the rule for empty lines is reached with
PriorsOfEmptyRule == { prior \in TypePairs : prior[1] # FRONT /\ prior[2] # CONTINUED }

\* get_types of an empty first line under every such prior classification
EmptyUnderEveryPrior ==
    (pc = "parse" /\ i = 0 /\ Len(script_lines) \in {1, 2}
        /\ is_empty_line(script_lines[1].content)) =>
        \A prior \in PriorsOfEmptyRule :
            FirstTypes(prior) = EmptyTypes(Lookahead(script_lines, 1), prior)

\* the loop classifies an empty line by the classification it holds
EmptyInLoop ==
    (pc = "parse" /\ i' = i + 1 /\ is_empty_line(script_lines[i'].content)
        /\ seg.prior_types \in PriorsOfEmptyRule) =>
        seg'.types = EmptyTypes(Lookahead(script_lines, i'), seg.prior_types)

\* C22: an empty line reached with a prior block type other than FRONT and
\* a prior line type other than CONTINUED is (ERROR, EMPTY) after (DIALOG,
\* DIALOG_HEADER); (DIALOG, EMPTY) exactly after (DIALOG, DIALOG) with a
\* dialog-header-shaped lookahead line or after (DIALOG, RESUMED); and
\* (EMPTY, EMPTY) in every other case.
C22_EmptyLineRule ==
    /\ []EmptyUnderEveryPrior
    /\ [][EmptyInLoop]_vars

\* an empty line kept in a DIALOG block: it follows a speech and the next
\* line is a dialog header
C22_Witness ==
    /\ pc = "parse" /\ i >= 3 /\ i < Len(script_lines)
    /\ is_empty_line(script_lines[i].content)
    /\ is_dialog_header(script_lines[i + 1].content)
    /\ seg.types = <<DIALOG, EMPTY>>
    /\ seg.current_block.block_type = DIALOG
    /\ seg.current_block.last_line = i

-----------------------------------------------------------------------------
(* Claims about the front matter. *)

\* while every line read so far is front matter the front span ends at the
\* last line read, and afterwards it ends before it
FrontIsPrefix ==
    (pc = "parse" /\ i >= 1) =>
        /\ seg.types[1] = FRONT => seg.script.front = [first_line |-> 1, last_line |-> i]
        /\ seg.types[1] # FRONT => seg.script.front.last_line < i

\* once a line has a block type other than FRONT, the next line has one too
\* and the front span stays as it is
FrontStaysClosed ==
    seg.types[1] # FRONT =>
        /\ seg'.types[1] # FRONT
        /\ seg'.script.front = seg.script.front

\* no block of a returned scene holds a line of the front span
NoBlockInFront ==
    Returned =>
        \A k \in DOMAIN OutScenes : \A b \in 1..Len(OutBlocks(k)) :
            OutBlocks(k)[b].first_line > seg.script.front.last_line

\* C23: the front span is a prefix of the input: once a line is classified
\* with a block type other than FRONT no later line is classified FRONT and
\* front.last_line does not change, and no block of an output scene holds a
\* line of the front span.
C23_FrontIsPrefix ==
    /\ [](FrontIsPrefix /\ NoBlockInFront)
    /\ [][FrontStaysClosed]_vars

\* a returned document with front matter and a scene of several blocks
C23_Witness ==
    /\ Returned
    /\ seg.script.front.last_line >= 2
    /\ \E k \in DOMAIN OutScenes :
          /\ Len(OutBlocks(k)) >= 2
          /\ OutBlocks(k)[1].first_line = seg.script.front.last_line + 1

-----------------------------------------------------------------------------
(* Claims about the line an occurrence is given. *)

\* the presences the sentence-level extractor registered
SweptPresences ==
    { n \in 1..Len(Presences.presences) :
        Presences.presences[n].presence_type \in {MENTION, APPEAR} }

\* the line of presence p lies in a DIALOG, ACTION or DIRECTION block of
\* the scene of p
InSweptBlock(p) ==
    \E b \in 1..Len(seg.script.scenes[p.where.scene_id].scene_blocks) :
        LET block == seg.script.scenes[p.where.scene_id].scene_blocks[b] IN
        /\ block.block_type \in {DIALOG, ACTION_, DIRECTION}
        /\ block.first_line <= p.where.line_no
        /\ p.where.line_no <= block.last_line

\* C24: the lookup of the line of an occurrence never fails, also when the
\* line contents carry no trailing newline, and the line it returns lies
\* in the range of lines that was swept.
C24_LookupInRange ==
    /\ pc = "raised" => eng.err # "IndexError"
    /\ pc \in {"extract", "raised", "returned"} =>
          \A n \in SweptPresences : InSweptBlock(Presences.presences[n])

-----------------------------------------------------------------------------
(* Claims about the speaker a dialog run is linked to. *)

\* the MENTION presences of the log, as positions
Mentions ==
    { n \in 1..Len(Presences.presences) :
        Presences.presences[n].presence_type = MENTION }

\* the block of the document that holds the line of presence p
BlockOf(p) ==
    enclosing_block(seg.script.scenes[p.where.scene_id].scene_blocks, p.where.line_no)

\* the speakers registered from the headers of the block of p above the
\* line of p, as positions of the log
SpeakersBefore(p) ==
    { k \in SpeakersOf(p.where.scene_id, BlockOf(p)) :
        Presences.presences[k].where.line_no < p.where.line_no }

\* the last of them
SpeakerBefore(p) ==
    Presences.presences[CHOOSE k \in SpeakersBefore(p) : \A m \in SpeakersBefore(p) :
        Presences.presences[m].where.line_no <= Presences.presences[k].where.line_no]

\* some MENTION interaction links speaker s to presence p
MentionLinks(s, p) ==
    \E n \in 1..Len(Interactions.interactions) :
        /\ Interactions.interactions[n].interaction_type = MENTION
        /\ Interactions.interactions[n].a = s
        /\ Interactions.interactions[n].b = p
        /\ Interactions.interactions[n].where = p.where

\* every noun of a dialog run is linked to the speaker above it
LinkedToSpeakerBefore ==
    \A n \in Mentions :
        LET p == Presences.presences[n] IN
        SpeakersBefore(p) # {} => MentionLinks(SpeakerBefore(p), p)

\* no noun of a dialog run is linked to a speaker of its block below it
NotLinkedToSpeakerAfter ==
    \A n \in Mentions : \A k \in SpeakersOf(Presences.presences[n].where.scene_id,
                                            BlockOf(Presences.presences[n])) :
        Presences.presences[k].where.line_no > Presences.presences[n].where.line_no
            => ~MentionLinks(Presences.presences[k], Presences.presences[n])

\* C25: in a DIALOG block every noun found in a run of DIALOG lines is
\* linked by a MENTION interaction to the speaker whose header precedes the
\* run, never to the speaker whose header follows it, also when a header
\* between two runs gives an empty character name and is skipped.
C25_MentionsOfPriorSpeaker ==
    pc = "extract" => (LinkedToSpeakerBefore /\ NotLinkedToSpeakerAfter)

\* the exchange with the skipped header: the noun of the speech under the
\* skipped header is linked to the speaker above it, and a later speaker of
\* the block has a noun of its own
C25_Witness ==
    /\ pc = "extract"
    /\ script_lines = MkLines(WithNewlines(SkippedHeader))
    /\ \E n \in Mentions : \E m \in Mentions :
          /\ get_character_from_dialog_header(
                 script_lines[Presences.presences[n].where.line_no - 1].content) = <<>>
          /\ MentionLinks(SpeakerBefore(Presences.presences[n]), Presences.presences[n])
          /\ SpeakerBefore(Presences.presences[n]).where.line_no
                 < Presences.presences[n].where.line_no - 1
          /\ SpeakerBefore(Presences.presences[m]).where.line_no
                 > Presences.presences[n].where.line_no

-----------------------------------------------------------------------------
(* Claims about the first line of a DIALOG block. *)

\* the type the block gives its first line
FirstLineType(block) == block.line_types[str(block.first_line)]

\* C26: every DIALOG block of the returned document begins with a line of
\* type DIALOG_HEADER.
C26_DialogBeginsWithHeader ==
    Returned =>
        \A k \in DOMAIN OutScenes : \A b \in 1..Len(OutBlocks(k)) :
            OutBlocks(k)[b].block_type = DIALOG
                => FirstLineType(OutBlocks(k)[b]) = DIALOG_HEADER

-----------------------------------------------------------------------------
(* Claims about the participants of an interaction. *)

\* the presences of the presence log
Registered == { Presences.presences[n] : n \in 1..Len(Presences.presences) }

\* C27: both participants of every interaction of the log are presences of
\* the presence log.
C27_ParticipantsRegistered ==
    pc = "extract" =>
        \A n \in 1..Len(Interactions.interactions) :
            /\ Interactions.interactions[n].a \in Registered
            /\ Interactions.interactions[n].b \in Registered

-----------------------------------------------------------------------------
(* Claims about the mode that enables noun discovery. *)

\* a noun that only noun discovery can have found: its name has no
\* authoritative type from a heading or a dialog header
DiscoveredNoun ==
    \E n \in 1..Len(Presences.presences) : Presences.presences[n].noun_type = THING

kAL == <<"A","L">>

\* the document was swept to the end and has an ACTION block on a line that
\* begins with the capitals AL, and AL spoke nowhere
UnregisteredCapitals ==
    /\ pc = "returned"
    /\ \E k \in 1..Len(script_lines) :
          /\ startswith(script_lines[k].content, kAL)
          /\ \E scene_id \in DOMAIN seg.script.scenes :
                \E b \in 1..Len(seg.script.scenes[scene_id].scene_blocks) :
                    LET block == seg.script.scenes[scene_id].scene_blocks[b] IN
                    /\ block.block_type = ACTION_
                    /\ block.first_line <= k /\ k <= block.last_line
    /\ \A n \in 1..Len(Presences.presences) :
          Presences.presences[n].name = kAL => Presences.presences[n].noun_type = THING

\* C28 as stated: the parse_mode argument decides whether noun discovery
\* runs: it finds the nouns of every sentence when parse_mode is FUZZY and
\* never runs when parse_mode is STRICT.
C28_ParseModeDecides ==
    pc \in {"extract", "raised", "returned"} =>
        /\ DiscoveredNoun => eng.mode = FUZZY
        /\ (UnregisteredCapitals /\ eng.mode = FUZZY) => DiscoveredNoun

\* C28 amended: the module-level mode decides whether noun discovery runs,
\* whatever parse_mode is: it finds the nouns of every sentence when mode is
\* FUZZY and never runs when mode is STRICT.
C28_ModuleModeDecides ==
    pc \in {"extract", "raised", "returned"} =>
        /\ DiscoveredNoun => mode = FUZZY
        /\ (UnregisteredCapitals /\ mode = FUZZY) => DiscoveredNoun

\* a run with mode FUZZY and parse_mode STRICT in which a noun was discovered
C28_Witness ==
    /\ pc = "returned"
    /\ mode = FUZZY /\ eng.mode = STRICT
    /\ UnregisteredCapitals
    /\ DiscoveredNoun

====
